---- MODULE Spec2Model ----
(***************************************************************************)
(* Model of the Benort workspace package storage engine                    *)
(* (src/benort/package.py) and of the runtime workspace registry           *)
(* (src/benort/workspace.py).                                              *)
(*                                                                         *)
(* One SQLite connection per BenortPackage, opened with                    *)
(* isolation_level=None: every statement commits on its own unless an      *)
(* explicit BEGIN is open.  `db` is what the connection reads (its own     *)
(* uncommitted writes included), `disk` is what is committed, `txn` says   *)
(* whether an explicit transaction is open on the connection.              *)
(*                                                                         *)
(* Text is a sequence of one-character strings, so that str.strip() is     *)
(* computed and not assumed.  JSON text is the record [json |-> v] of the  *)
(* value json.loads gives back for it.                                     *)
(***************************************************************************)
EXTENDS Integers, Sequences, FiniteSets, TLC

VARIABLES
    db,         \* the connection's view of the tables
    disk,       \* the committed tables
    txn,        \* TRUE while an explicit BEGIN is open on the connection
    now,        \* the wall clock, in units of the version tolerance (1e-6 s)
    call,       \* the last public call: [op, arg, status, value]
    saved,      \* the last save_pages call that opened a transaction
    pwd,        \* the argument of the last password change that returned
    pc,         \* thread -> position inside its current call
    loc,        \* thread -> the locals of its current call
    lockOwner,  \* the holder of BenortPackage._lock
    boundary,   \* thread -> the store views at call boundaries of the others
    registry,   \* _REGISTRY: workspace id -> handle flags
    sidecar,    \* the shared on-disk registry: workspace id -> record
    auth        \* workspace id -> the handle has proved or set the password

vars == <<db, disk, txn, now, call, saved, pwd, pc, loc, lockOwner, boundary,
          registry, sidecar, auth>>

----------------------------------------------------------------------------
(* Bounds of the model *)

MaxPages == 2
MaxTime == 7

----------------------------------------------------------------------------
(* Functions as tables *)

Put(f, k, v) == [x \in (DOMAIN f) \cup {k} |-> IF x = k THEN v ELSE f[x]]

Drop(f, S) == [x \in (DOMAIN f) \ S |-> f[x]]

Range(s) == {s[i] : i \in DOMAIN s}

----------------------------------------------------------------------------
(* Text *)

Blank == " "

RECURSIVE LStrip(_)
LStrip(s) == IF s # <<>> /\ Head(s) = Blank THEN LStrip(Tail(s)) ELSE s

RECURSIVE RStrip(_)
RStrip(s) ==
    IF s # <<>> /\ s[Len(s)] = Blank THEN RStrip(SubSeq(s, 1, Len(s) - 1)) ELSE s

Strip(s) == RStrip(LStrip(s))

\* the code points the model's characters are ordered by (SQLite BINARY collation)
Alphabet == <<" ", "1", "2", "3", "4", "5", "6", "7", "8", "9",
              "a", "b", "c", "d", "e", "g", "k", "n", "p", "q", "r", "s", "t",
              "x", "y", "z">>

CharRank(c) == CHOOSE i \in DOMAIN Alphabet : Alphabet[i] = c

RECURSIVE TextLess(_, _)
TextLess(s, t) ==
    IF t = <<>> THEN FALSE
    ELSE IF s = <<>> THEN TRUE
    ELSE IF Head(s) = Head(t) THEN TextLess(Tail(s), Tail(t))
    ELSE CharRank(Head(s)) < CharRank(Head(t))

----------------------------------------------------------------------------
(* JSON codec.  A value is [k, v]: a str, a list or a tuple holding the    *)
(* one text v, or a bytes object, which json.dumps rejects.                *)

JStr(t) == [k |-> "str", v |-> t]
JList(t) == [k |-> "list", v |-> t]
JTuple(t) == [k |-> "tuple", v |-> t]
JBytes == [k |-> "bytes", v |-> <<>>]

CanSerialize(val) == val.k # "bytes"

CanSerializeDict(d) == \A key \in DOMAIN d : CanSerialize(d[key])

\* json.dumps writes a tuple as an array, which json.loads reads as a list
JsonValue(val) == IF val.k = "tuple" THEN JList(val.v) ELSE val

SerializeDict(d) == [json |-> [key \in DOMAIN d |-> JsonValue(d[key])]]

Deserialize(payload) == payload.json

NoDict == [key \in {} |-> JBytes]

----------------------------------------------------------------------------
(* Page payloads.  A caller's page is                                      *)
(*   [pageId, content, notes, script : text, resources : Seq(text),        *)
(*    bib : Seq(entry), extras : key -> JSON value]                        *)
(* where an absent or None core field is the empty text or sequence (the   *)
(* code reads both through `payload.get(k) or ""`), an entry is            *)
(* [k |-> "dict", d |-> dict] or [k |-> "str", v |-> text], and extras     *)
(* holds every other key of the payload, "id" among them.                  *)

BibDict(d) == [k |-> "dict", v |-> <<>>, d |-> d]
BibStr(t) == [k |-> "str", v |-> t, d |-> NoDict]

\* (mutation of DedupePreserve: the last occurrence of a name decides its place)
RECURSIVE DedupeKeepLast(_)
DedupeKeepLast(items) ==
    IF items = <<>> THEN <<>>
    ELSE LET rest == DedupeKeepLast(Tail(items))
         IN IF Head(items) \in Range(rest) THEN rest ELSE <<Head(items)>> \o rest

RECURSIVE DedupePreserve(_)
DedupePreserve(items) ==
    IF items = <<>> THEN <<>>
    ELSE LET front == DedupePreserve(SubSeq(items, 1, Len(items) - 1))
             raw == items[Len(items)]
         IN IF raw \in Range(front) THEN front ELSE Append(front, raw)

RECURSIVE CleanNames(_)
CleanNames(values) ==
    IF values = <<>> THEN <<>>
    ELSE LET name == Strip(Head(values))
         IN IF name # <<>> THEN <<name>> \o CleanNames(Tail(values))
            ELSE CleanNames(Tail(values))

NormalizeResourceList(values) == DedupePreserve(CleanNames(values))

RECURSIVE CoerceBibEntries(_)
CoerceBibEntries(entries) ==
    IF entries = <<>> THEN <<>>
    ELSE LET entry == Head(entries)
             rest == CoerceBibEntries(Tail(entries))
         IN IF entry.k = "dict" THEN <<entry.d>> \o rest
            ELSE IF entry.k = "str" THEN <<[key \in {"entry"} |-> JStr(entry.v)]>> \o rest
            ELSE rest

\* payload.get("pageId") or payload.get("id") or ""
RawPageId(page) ==
    IF page.pageId # <<>> THEN page.pageId
    ELSE IF "id" \in DOMAIN page.extras /\ page.extras["id"].k = "str"
         THEN page.extras["id"].v
         ELSE <<>>

\* gen is the uuid-derived id the call would generate for this page
NormalizePagePayload(page, gen) ==
    LET page_id == Strip(RawPageId(page))
    IN [pageId |-> IF page_id = <<>> THEN gen ELSE page_id,
        content |-> page.content,
        script |-> page.script,
        notes |-> page.notes,
        resources |-> NormalizeResourceList(page.resources),
        bib |-> CoerceBibEntries(page.bib),
        extras |-> page.extras]

ExtractPageMeta(payload) == payload.extras

NormalizeAll(pages, gens) ==
    [i \in DOMAIN pages |-> NormalizePagePayload(pages[i], gens[i])]

----------------------------------------------------------------------------
(* Page tables.  page_latex: id -> [idx, meta, content]; page_markdown     *)
(* (the notes) and page_notes (the script): id -> text; page_resources     *)
(* and page_references: id -> the rows of the page in position order, a    *)
(* page without rows being absent.                                         *)

UpsertPageLatex(d, page_id, idx, body, meta) ==
    [d EXCEPT !.page_latex =
        Put(@, page_id, [idx |-> idx, meta |-> SerializeDict(meta), content |-> body])]

UpsertPageText(d, table, page_id, body) ==
    IF table = "page_markdown"
    THEN [d EXCEPT !.page_markdown = Put(@, page_id, body)]
    ELSE [d EXCEPT !.page_notes = Put(@, page_id, body)]

RewritePageResources(d, page_id, resources) ==
    IF resources = <<>>
    THEN [d EXCEPT !.page_resources = Drop(@, {page_id})]
    ELSE [d EXCEPT !.page_resources = Put(@, page_id, resources)]

\* the entries executemany inserts before _serialize raises on one of them
RECURSIVE SerializablePrefix(_)
SerializablePrefix(entries) ==
    IF entries = <<>> \/ ~CanSerializeDict(Head(entries)) THEN <<>>
    ELSE <<SerializeDict(Head(entries))>> \o SerializablePrefix(Tail(entries))

RewritePageReferences(d, page_id, entries) ==
    LET rows == SerializablePrefix(entries)
    IN IF rows = <<>>
       THEN [d EXCEPT !.page_references = Drop(@, {page_id})]
       ELSE [d EXCEPT !.page_references = Put(@, page_id, rows)]

\* One turn of the loop of save_pages: the five writes of one page.  ok is
\* FALSE when a statement raised; db is what was written up to there.
WritePage(d, idx, payload) ==
    IF ~CanSerializeDict(ExtractPageMeta(payload))
    THEN [db |-> d, ok |-> FALSE]
    ELSE LET d1 == UpsertPageLatex(d, payload.pageId, idx, payload.content,
                                   ExtractPageMeta(payload))
             d2 == UpsertPageText(d1, "page_markdown", payload.pageId, payload.notes)
             d3 == UpsertPageText(d2, "page_notes", payload.pageId, payload.script)
             d4 == RewritePageResources(d3, payload.pageId, payload.resources)
             d5 == RewritePageReferences(d4, payload.pageId, payload.bib)
         IN [db |-> d5,
             ok |-> \A i \in DOMAIN payload.bib : CanSerializeDict(payload.bib[i])]

RECURSIVE WritePages(_, _, _)
WritePages(d, normalized, n) ==
    IF n = 0 THEN [db |-> d, ok |-> TRUE]
    ELSE LET sofar == WritePages(d, normalized, n - 1)
         IN IF sofar.ok THEN WritePage(sofar.db, n - 1, normalized[n]) ELSE sofar

DesiredIds(normalized) == {normalized[i].pageId : i \in DOMAIN normalized}

DeleteDoomed(d, to_delete) ==
    [d EXCEPT !.page_latex = Drop(@, to_delete),
              !.page_markdown = Drop(@, to_delete),
              !.page_notes = Drop(@, to_delete),
              !.page_resources = Drop(@, to_delete),
              !.page_references = Drop(@, to_delete)]

\* (mutation of SavePagesBody: the stored ids are deleted without taking the
\* desired ids out of them)
SavePagesDeleteStored(d, normalized) ==
    LET written == WritePages(d, normalized, Len(normalized))
    IN IF written.ok
       THEN [db |-> DeleteDoomed(written.db, DOMAIN d.page_latex), ok |-> TRUE]
       ELSE written

\* save_pages between BEGIN IMMEDIATE and commit, on a connection with no
\* transaction open
SavePagesBody(d, normalized) ==
    LET existing_ids == DOMAIN d.page_latex
        written == WritePages(d, normalized, Len(normalized))
        to_delete == existing_ids \ DesiredIds(normalized)
    IN IF written.ok
       THEN [db |-> DeleteDoomed(written.db, to_delete), ok |-> TRUE]
       ELSE written

----------------------------------------------------------------------------
(* list_pages *)

RowBefore(d, a, b) ==
    \/ d.page_latex[a].idx < d.page_latex[b].idx
    \/ d.page_latex[a].idx = d.page_latex[b].idx /\ TextLess(a, b)

\* ORDER BY idx ASC, page_id ASC
RECURSIVE OrderedIds(_, _)
OrderedIds(d, ids) ==
    IF ids = {} THEN <<>>
    ELSE LET first == CHOOSE a \in ids : \A b \in ids \ {a} : RowBefore(d, a, b)
         IN <<first>> \o OrderedIds(d, ids \ {first})

PageRecordOf(d, page_id) ==
    [pageId |-> page_id,
     order |-> d.page_latex[page_id].idx,
     content |-> d.page_latex[page_id].content,
     notes |-> IF page_id \in DOMAIN d.page_markdown THEN d.page_markdown[page_id] ELSE <<>>,
     script |-> IF page_id \in DOMAIN d.page_notes THEN d.page_notes[page_id] ELSE <<>>,
     resources |-> IF page_id \in DOMAIN d.page_resources
                   THEN d.page_resources[page_id] ELSE <<>>,
     bib |-> IF page_id \in DOMAIN d.page_references
             THEN [i \in DOMAIN d.page_references[page_id] |->
                      Deserialize(d.page_references[page_id][i])]
             ELSE <<>>,
     extras |-> Deserialize(d.page_latex[page_id].meta)]

ListPages(d) ==
    LET ids == OrderedIds(d, DOMAIN d.page_latex)
    IN [i \in DOMAIN ids |-> PageRecordOf(d, ids[i])]

----------------------------------------------------------------------------
(* The store after create_package: BenortPackage.__init__ on a new file    *)
(* (schema, default templates, security record) and initialize_defaults.   *)

T(c) == <<c>>

EmptyRows == [x \in {} |-> <<>>]

\* the clock reading initialize_defaults stamps
CreatedAt == 1

DefaultPage(page_id, body) ==
    [pageId |-> page_id, content |-> body, script |-> <<>>, notes |-> <<>>,
     resources |-> <<>>, bib |-> <<>>, extras |-> NoDict]

DEFAULT_PAGES == <<DefaultPage(<<"d", "1">>, T("t")), DefaultPage(<<"d", "2">>, T("c"))>>

\* a table the file does not have
NoTable == [exists |-> FALSE, rows |-> <<>>]

\* The file after BenortPackage.__init__ on a new path.  `meta` holds the
\* meta rows other than the project record: key -> [k, v], k the JSON type
\* of the value; the password hash of the projectSecurity row is
\* `passwordHash`, v its updatedAt.  `pages` and `assets` are the tables of
\* the earlier layout, `missing` the columns page_latex and
\* learning_records lack.
SchemaDb ==
    [page_latex |-> EmptyRows, page_markdown |-> EmptyRows, page_notes |-> EmptyRows,
     page_resources |-> EmptyRows, page_references |-> EmptyRows,
     templates |-> [type \in {"latex", "markdown"} |-> "default"],
     project_resources |-> <<>>, project_references |-> <<>>,
     project |-> [name |-> "", updatedAt |-> 0, exists |-> FALSE, llm |-> ""],
     passwordHash |-> <<>>,
     attachments |-> <<>>, resource_files |-> <<>>,
     learning_records |-> EmptyRows, learning_prompts |-> EmptyRows,
     meta |-> [key \in {"projectSecurity"} |-> [k |-> "dict", v |-> <<CreatedAt>>]],
     pages |-> NoTable, assets |-> NoTable, missing |-> {}]

CreatedDb ==
    LET seeded == [SchemaDb EXCEPT
                      !.project = [name |-> "demo", updatedAt |-> CreatedAt,
                                   exists |-> TRUE, llm |-> ""]]
    IN SavePagesBody(seeded, DEFAULT_PAGES).db

----------------------------------------------------------------------------
(* Inputs of the page operations *)

Page(page_id, body, notes, script, resources, bib, extras) ==
    [pageId |-> page_id, content |-> body, script |-> script, notes |-> notes,
     resources |-> resources, bib |-> bib, extras |-> extras]

Extra(key, val) == [x \in {key} |-> val]

PageA == Page(<<>>, T("x"), T("n"), T("s"), <<T("r"), T("q"), T("r")>>,
              <<BibDict(Extra("key", JStr(T("k")))), BibStr(T("e"))>>,
              [key \in {"id", "title"} |-> IF key = "id" THEN JStr(T("a")) ELSE JStr(T("t"))])
PageAPadded == Page(<<"a", " ">>, T("z"), <<>>, T("s"), <<<<" ", "r">>, T("r"), T(" ")>>,
                    <<>>, Extra("tags", JTuple(T("t"))))
PageNoId == Page(<<>>, T("y"), T("n"), <<>>, <<T("q")>>, <<>>, NoDict)
PageBadMeta == Page(T("c"), T("z"), <<>>, <<>>, <<>>, <<>>, Extra("blob", JBytes))
PageBadBib == Page(T("c"), T("z"), T("n"), <<>>, <<T("r")>>,
                   <<BibDict(Extra("key", JStr(T("k")))), BibDict(Extra("raw", JBytes))>>,
                   NoDict)

PagePool == {PageA, PageAPadded, PageNoId, PageBadMeta, PageBadBib}

RECURSIVE ListsUpTo(_, _)
ListsUpTo(S, n) ==
    IF n = 0 THEN {<<>>}
    ELSE LET shorter == ListsUpTo(S, n - 1)
         IN shorter \cup {Append(l, x) : l \in shorter, x \in S}

PageLists == ListsUpTo(PagePool, MaxPages)

Digits == <<"1", "2", "3", "4", "5", "6", "7", "8", "9">>

\* the ids uuid4 can give: page_<hex>
GenIds == {<<"g", Digits[i]>> : i \in 1..(2 * MaxPages)}

NeedsGen(page) == Strip(RawPageId(page)) = <<>>

RECURSIVE LeastFresh(_, _)
LeastFresh(used, i) ==
    IF <<"g", Digits[i]>> \in used THEN LeastFresh(used, i + 1) ELSE <<"g", Digits[i]>>

\* uuid4 gives each page without an id an id nothing else carries.  The
\* ids are opaque, so the model names them in order of use: the least
\* ones neither stored nor given to an earlier page of the list.
RECURSIVE FreshGens(_, _)
FreshGens(d, pages) ==
    IF pages = <<>> THEN <<>>
    ELSE LET front == FreshGens(d, SubSeq(pages, 1, Len(pages) - 1))
         IN Append(front, LeastFresh((DOMAIN d.page_latex) \cup Range(front), 1))

----------------------------------------------------------------------------
(* Idle values of the variables a specification does not use *)

NoCall == [op |-> "none", status |-> "none", arg |-> <<>>, value |-> <<>>]
NoSave == [arg |-> <<>>, ids |-> <<>>, status |-> "none", kept |-> FALSE,
           dropped |-> FALSE, before |-> <<>>]
Threads == {"t1", "t2"}
NoThreads == [t \in Threads |-> "idle"]
\* what a thread holds while it runs a call: the call and its payload, the
\* locals of the method it is in, the result, and the number of calls made
IdleLocal == [op |-> "none", payload |-> <<>>, normalized |-> <<>>, i |-> 0,
              existing_ids |-> {}, existing_meta |-> <<>>, rows |-> <<>>,
              out |-> <<>>, status |-> "none", stored |-> 0, overlap |-> FALSE,
              before |-> <<>>, n |-> 0]
NoLocals == [t \in Threads |-> IdleLocal]
NoBoundary == [t \in Threads |-> {}]
NoHandles == [w \in {} |-> <<>>]

InitCommon ==
    /\ db = CreatedDb
    /\ disk = CreatedDb
    /\ txn = FALSE
    /\ now = CreatedAt
    /\ call = NoCall
    /\ saved = NoSave
    /\ pwd = <<>>
    /\ pc = NoThreads
    /\ loc = NoLocals
    /\ lockOwner = "none"
    /\ boundary = NoBoundary
    /\ registry = NoHandles
    /\ sidecar = NoHandles
    /\ auth = NoHandles

----------------------------------------------------------------------------
(* SpecPages: save_pages and list_pages called one after the other on one  *)
(* BenortPackage.                                                          *)

OtherThanPages == <<now, pwd, pc, loc, lockOwner, boundary, registry, sidecar, auth>>

\* save_pages(pages).  BEGIN IMMEDIATE inside an open transaction raises
\* sqlite3.OperationalError; an exception inside the transaction leaves the
\* `with self._lock` block with no rollback.  `saved` keeps the last call
\* that opened a transaction: its list when it returned, the pages stored
\* before it when it raised.
SavePages(pages, gens) ==
    LET normalized == NormalizeAll(pages, gens)
        run == SavePagesBody(db, normalized)
        existing_ids == DOMAIN db.page_latex
        status == IF txn THEN "begin_failed" ELSE IF run.ok THEN "ok" ELSE "raised"
    IN /\ db' = IF txn THEN db ELSE run.db
       /\ disk' = IF status = "ok" THEN run.db ELSE disk
       /\ txn' = (txn \/ ~run.ok)
       /\ saved' = IF txn THEN saved
                   ELSE IF run.ok
                   THEN [arg |-> pages,
                         ids |-> [i \in DOMAIN normalized |-> normalized[i].pageId],
                         status |-> status,
                         kept |-> existing_ids \cap DesiredIds(normalized) # {},
                         dropped |-> existing_ids \ DesiredIds(normalized) # {},
                         before |-> <<>>]
                   ELSE [NoSave EXCEPT !.status = status, !.before = ListPages(db)]
       /\ call' = [op |-> "save_pages", status |-> status, arg |-> [valid |-> run.ok],
                   value |-> <<>>]
       /\ UNCHANGED OtherThanPages

CallListPages ==
    /\ call' = [op |-> "list_pages", status |-> "ok", arg |-> <<>>, value |-> ListPages(db)]
    /\ UNCHANGED <<db, disk, txn, saved>>
    /\ UNCHANGED OtherThanPages

\* (mutation of CallSaveTemplate: the write also stamps the project)
CallSaveTemplateStamped(template_type, data) ==
    LET newdb == [db EXCEPT !.templates = Put(@, template_type, data),
                            !.project.updatedAt = @ + 1]
    IN /\ db' = newdb
       /\ disk' = IF txn THEN disk ELSE newdb
       /\ call' = [op |-> "save_template", status |-> "ok",
                   arg |-> [type |-> template_type], value |-> data]
       /\ UNCHANGED <<txn, saved>>
       /\ UNCHANGED OtherThanPages

\* save_template(template_type, data): one statement outside any explicit
\* transaction, which the connection (isolation_level=None) commits at once
\* unless a transaction is open
CallSaveTemplate(template_type, data) ==
    LET newdb == [db EXCEPT !.templates = Put(@, template_type, data)]
    IN /\ db' = newdb
       /\ disk' = IF txn THEN disk ELSE newdb
       /\ call' = [op |-> "save_template", status |-> "ok",
                   arg |-> [type |-> template_type], value |-> data]
       /\ UNCHANGED <<txn, saved>>
       /\ UNCHANGED OtherThanPages

NextPages ==
    \/ \E pages \in PageLists : SavePages(pages, FreshGens(db, pages))
    \/ CallListPages
    \/ CallSaveTemplate("latex", "custom")

SpecPages == InitCommon /\ [][NextPages]_vars

----------------------------------------------------------------------------
(* Claims on the page store *)

FirstIndex(seq, x) == CHOOSE i \in DOMAIN seq : seq[i] = x /\ \A j \in 1..(i - 1) : seq[j] # x

\* out holds each element of inp once, in the order of first occurrence
IsFirstOccurrenceDedupe(inp, out) ==
    /\ Range(out) = Range(inp)
    /\ \A i, j \in DOMAIN out :
          i < j => out[i] # out[j] /\ FirstIndex(inp, out[i]) < FirstIndex(inp, out[j])

SuppliedId(page) == RawPageId(page)

ListedAfterSave == call.op = "list_pages" /\ saved.status = "ok"

\* the ids of the list, read as the code reads them, are pairwise distinct
DistinctIds(pages) ==
    \A i, j \in DOMAIN pages :
        i # j /\ ~NeedsGen(pages[i]) /\ ~NeedsGen(pages[j])
            => Strip(RawPageId(pages[i])) # Strip(RawPageId(pages[j]))

WrappedBib(entry) ==
    IF entry.k = "str" THEN Extra("entry", JStr(entry.v))
    ELSE [key \in DOMAIN entry.d |-> JsonValue(entry.d[key])]

\* C1 as claimed: save_pages(P) then list_pages() returns P's pages: as
\* many, in P's order with ordinal = position, each with the supplied id,
\* the same content, notes and script, the resources deduplicated in
\* first-occurrence order, equal bib entries (a bare string wrapped) and
\* unchanged extras.
C1_AsClaimed ==
    ListedAfterSave =>
        LET P == saved.arg
            L == call.value
        IN /\ Len(L) = Len(P)
           /\ \A i \in DOMAIN P :
                 /\ L[i].order = i - 1
                 /\ SuppliedId(P[i]) # <<>> => L[i].pageId = SuppliedId(P[i])
                 /\ L[i].content = P[i].content
                 /\ L[i].notes = P[i].notes
                 /\ L[i].script = P[i].script
                 /\ IsFirstOccurrenceDedupe(P[i].resources, L[i].resources)
                 /\ Len(L[i].bib) = Len(P[i].bib)
                 /\ \A j \in DOMAIN P[i].bib :
                       L[i].bib[j] = IF P[i].bib[j].k = "str"
                                     THEN Extra("entry", JStr(P[i].bib[j].v))
                                     ELSE P[i].bib[j].d
                 /\ L[i].extras = P[i].extras

\* C1 as amended: for a list P whose ids are pairwise distinct once
\* stripped, save_pages(P) then list_pages() returns as many pages, in P's
\* order with ordinal = position, each with the supplied id stripped of
\* surrounding blanks (a generated id when that is empty), the same
\* content, notes and script, the resource names stripped, the empty ones
\* dropped, deduplicated in first-occurrence order, the bib entries and the
\* extras as their JSON round trip (a bare string entry wrapped, a tuple
\* read back as a list).
C1_SaveThenList ==
    ListedAfterSave /\ DistinctIds(saved.arg) =>
        LET P == saved.arg
            L == call.value
        IN /\ Len(L) = Len(P)
           /\ \A i \in DOMAIN P :
                 /\ L[i].order = i - 1
                 /\ L[i].pageId = IF NeedsGen(P[i]) THEN saved.ids[i]
                                  ELSE Strip(SuppliedId(P[i]))
                 /\ NeedsGen(P[i]) => L[i].pageId \in GenIds
                 /\ L[i].content = P[i].content
                 /\ L[i].notes = P[i].notes
                 /\ L[i].script = P[i].script
                 /\ IsFirstOccurrenceDedupe(CleanNames(P[i].resources), L[i].resources)
                 /\ Len(L[i].bib) = Len(P[i].bib)
                 /\ \A j \in DOMAIN P[i].bib : L[i].bib[j] = WrappedBib(P[i].bib[j])
                 /\ L[i].extras = [key \in DOMAIN P[i].extras |-> JsonValue(P[i].extras[key])]

C1_Witness ==
    /\ ListedAfterSave
    /\ saved.arg = <<PageNoId, PageA>>
    /\ Len(call.value) = 2

CompanionIds(d) ==
    (DOMAIN d.page_markdown) \cup (DOMAIN d.page_notes)
        \cup (DOMAIN d.page_resources) \cup (DOMAIN d.page_references)

C3_FailedSaveLeavesStore ==
    call.op = "list_pages" /\ saved.status = "raised" => call.value = saved.before

\* C23 (as claimed): after a save_pages call that raised, a save_pages call
\* with a list it can store succeeds, and what save_template writes is
\* committed to the file.
C23_FailedSaveDoesNotWedge ==
    saved.status = "raised" =>
        /\ call.op = "save_pages" /\ call.arg.valid => call.status = "ok"
        /\ call.op = "save_template" => disk.templates["latex"] = call.value

----------------------------------------------------------------------------
(* Templates, project resources and references, project metadata *)

SaveTemplate(d, template_type, data) ==
    [d EXCEPT !.templates = Put(@, template_type, data)]

\* get_template_block: the stored row, or the default, which it also saves
GetTemplateBlock(d, template_type) ==
    IF template_type \in DOMAIN d.templates
    THEN [db |-> d, data |-> d.templates[template_type]]
    ELSE [db |-> SaveTemplate(d, template_type, "default"), data |-> "default"]

ListProjectResources(d) == d.project_resources

ReplaceProjectResources(d, resources) ==
    [d EXCEPT !.project_resources = NormalizeResourceList(resources)]

ListProjectReferences(d) ==
    [i \in DOMAIN d.project_references |-> Deserialize(d.project_references[i])]

\* ok is FALSE when _serialize raised on an entry; the rows before it are in
ReplaceProjectReferences(d, entries) ==
    LET normalized == CoerceBibEntries(entries)
    IN [db |-> [d EXCEPT !.project_references = SerializablePrefix(normalized)],
        ok |-> \A i \in DOMAIN normalized : CanSerializeDict(normalized[i])]

\* the version tolerance 1e-6 s, the unit of `now`
Tolerance == 1

\* time.time() as save_project reads it: later than every earlier reading by
\* more than the tolerance (a save holds a database commit)
ClockStep == Tolerance + 1

\* payload.get("clientUpdatedAt") or payload.get("expectedUpdatedAt"): a
\* clientUpdatedAt of 0 is falsy and gives way to the other key
ExpectedTsRaw(payload) ==
    IF "clientUpdatedAt" \in payload.keys /\ payload.clientUpdatedAt # 0
    THEN [given |-> TRUE, ts |-> payload.clientUpdatedAt]
    ELSE IF "expectedUpdatedAt" \in payload.keys
         THEN [given |-> TRUE, ts |-> payload.expectedUpdatedAt]
         ELSE [given |-> FALSE, ts |-> 0]

VersionConflict(payload, existing_meta) ==
    LET expected == ExpectedTsRaw(payload)
    IN /\ expected.given
       /\ existing_meta.exists
       /\ existing_meta.updatedAt - expected.ts > Tolerance

\* the metadata save_project writes back: the copy it read at its start,
\* stamped, renamed when the payload names the project, with its llm block
StampedMeta(existing_meta, payload, stamp) ==
    [existing_meta EXCEPT
        !.exists = TRUE,
        !.updatedAt = stamp,
        !.name = IF "project" \in payload.keys /\ payload.project # ""
                 THEN payload.project ELSE @,
        !.llm = IF "llm" \in payload.keys THEN payload.llm ELSE @]

\* what export_project reads, table by table
ExportPages(d) == ListPages(d)

ExportProject(d) ==
    [project |-> d.project.name,
     updatedAt |-> d.project.updatedAt,
     pages |-> ExportPages(d),
     template |-> GetTemplateBlock(d, "latex").data,
     markdownTemplate |-> GetTemplateBlock(d, "markdown").data,
     resources |-> ListProjectResources(d),
     bib |-> ListProjectReferences(d),
     llm |-> d.project.llm]

\* the store after the writes of save_project that follow save_pages
AfterPagesSaved(d, payload, existing_meta, stamp) ==
    LET d2 == IF "template" \in payload.keys
              THEN SaveTemplate(d, "latex", payload.template) ELSE d
        d3 == IF "markdownTemplate" \in payload.keys
              THEN SaveTemplate(d2, "markdown", payload.markdownTemplate) ELSE d2
        d4 == IF "resources" \in payload.keys
              THEN ReplaceProjectResources(d3, payload.resources) ELSE d3
        refs == IF "bib" \in payload.keys
                THEN ReplaceProjectReferences(d4, payload.bib)
                ELSE [db |-> d4, ok |-> TRUE]
    IN IF refs.ok
       THEN [db |-> [refs.db EXCEPT !.project = StampedMeta(existing_meta, payload, stamp)],
             ok |-> TRUE]
       ELSE refs

----------------------------------------------------------------------------
(* SpecProject: save_project and export_project called one after the      *)
(* other on one BenortPackage.                                             *)

Payload(keys, cl, ex, pages, template, md, resources, bib, project, llm) ==
    [keys |-> keys, clientUpdatedAt |-> cl, expectedUpdatedAt |-> ex, pages |-> pages,
     template |-> template, markdownTemplate |-> md, resources |-> resources,
     bib |-> bib, project |-> project, llm |-> llm]

BodyFull == Payload({"pages", "template", "markdownTemplate", "resources", "bib",
                     "project", "llm"}, 0, 0,
                    <<PageAPadded, PageNoId>>, "custom", "custom", <<T("r"), T("r")>>,
                    <<BibStr(T("e"))>>, "renamed", "llm")
BodyEmpty == Payload({}, 0, 0, <<>>, "", "", <<>>, <<>>, "", "")
BodyBad == Payload({"pages"}, 0, 0, <<PageA, PageBadBib>>, "", "", <<>>, <<>>, "", "")

\* a payload whose 'pages' key holds the empty list
BodyNoPages == Payload({"pages"}, 0, 0, <<>>, "", "", <<>>, <<>>, "", "")

Bodies == {BodyFull, BodyEmpty, BodyBad, BodyNoPages}

Tokens == 0..MaxTime

WithTokens(body, tkeys, cl, ex) ==
    [body EXCEPT !.keys = @ \cup tkeys,
                 !.clientUpdatedAt = IF "clientUpdatedAt" \in tkeys THEN cl ELSE 0,
                 !.expectedUpdatedAt = IF "expectedUpdatedAt" \in tkeys THEN ex ELSE 0]

\* no token, clientUpdatedAt with 0 or any reading of the clock,
\* expectedUpdatedAt with 0, the creation stamp or the first save's stamp, and
\* both keys with one of them 0
TokenShapes ==
    {<<{}, 0, 0>>}
        \cup {<<{"clientUpdatedAt"}, t, 0>> : t \in Tokens}
        \cup {<<{"expectedUpdatedAt"}, 0, t>> : t \in {0, CreatedAt, CreatedAt + ClockStep}}
        \cup {<<{"clientUpdatedAt", "expectedUpdatedAt"}, 0, CreatedAt>>,
              <<{"clientUpdatedAt", "expectedUpdatedAt"}, CreatedAt, 0>>}

Payloads == {WithTokens(body, sh[1], sh[2], sh[3]) : body \in Bodies, sh \in TokenShapes}

\* what a claim needs of a save_project call: the tokens it carried, the
\* stored updatedAt when it started, and the same of the call before it
CallTokens(payload) ==
    [keys |-> payload.keys \cap {"clientUpdatedAt", "expectedUpdatedAt"},
     clientUpdatedAt |-> payload.clientUpdatedAt,
     expectedUpdatedAt |-> payload.expectedUpdatedAt]

\* the expected timestamp a payload carries, as a caller reads its own
\* payload: clientUpdatedAt when it has the key, else expectedUpdatedAt
Carried(tokens) ==
    IF "clientUpdatedAt" \in tokens.keys
    THEN [given |-> TRUE, ts |-> tokens.clientUpdatedAt]
    ELSE IF "expectedUpdatedAt" \in tokens.keys
         THEN [given |-> TRUE, ts |-> tokens.expectedUpdatedAt]
         ELSE [given |-> FALSE, ts |-> 0]

NoPrev == [op |-> "none", status |-> "none", expected |-> Carried(BodyEmpty), stored |-> 0]

\* kept of the call before: a save_project that succeeded with the stored
\* updatedAt as its expected timestamp; any other call leaves no trace
PrevOf(c) ==
    IF /\ c.op = "save_project"
       /\ c.status = "ok"
       /\ Carried(c.arg.tokens).given
       /\ Carried(c.arg.tokens).ts = c.arg.stored
    THEN [op |-> c.op, status |-> c.status, expected |-> Carried(c.arg.tokens),
          stored |-> c.arg.stored]
    ELSE NoPrev

OtherThanProject == <<saved, pwd, pc, loc, lockOwner, boundary, registry, sidecar, auth>>

SaveProject(payload) ==
    LET existing_meta == db.project
        pages == IF "pages" \in payload.keys THEN payload.pages ELSE <<>>
        normalized == NormalizeAll(pages, FreshGens(db, pages))
        run == SavePagesBody(db, normalized)
        stamp == now + ClockStep
        done == AfterPagesSaved(run.db, payload, existing_meta, stamp)
        status == IF VersionConflict(payload, existing_meta) THEN "conflict"
                  ELSE IF txn THEN "begin_failed"
                  ELSE IF ~run.ok THEN "raised"
                  ELSE IF ~done.ok THEN "error"
                  ELSE "ok"
        newdb == CASE status = "ok" -> done.db
                   [] status = "error" -> done.db
                   [] status = "raised" -> run.db
                   [] OTHER -> db
    IN /\ status = "ok" => stamp <= MaxTime
       /\ db' = newdb
       /\ disk' = IF status \in {"ok", "error"} THEN newdb ELSE disk
       /\ txn' = (txn \/ status = "raised")
       /\ now' = IF status = "ok" THEN stamp ELSE now
       /\ call' = [op |-> "save_project", status |-> status,
                   arg |-> [tokens |-> CallTokens(payload),
                            stored |-> existing_meta.updatedAt,
                            healthy |-> ~txn,
                            valid |-> run.ok /\ done.ok,
                            empty |-> pages = <<>>,
                            pages_key |-> "pages" \in payload.keys,
                            page_ids |-> DesiredIds(normalized),
                            after_save_pages |-> call.op = "save_pages" /\ call.status = "ok",
                            stored_ids |-> DOMAIN db.page_latex,
                            before |-> IF status = "conflict" THEN <<db>> ELSE <<>>,
                            prev |-> PrevOf(call)],
                   value |-> IF status = "ok" THEN <<ExportProject(newdb)>> ELSE <<>>]
       /\ UNCHANGED OtherThanProject

CallExportProject ==
    /\ call' = [op |-> "export_project", status |-> "ok", arg |-> <<>>,
                value |-> <<ExportProject(db)>>]
    /\ UNCHANGED <<db, disk, txn, now>>
    /\ UNCHANGED OtherThanProject

NextProject ==
    \/ \E payload \in Payloads : SaveProject(payload)
    \/ CallExportProject

SpecProject == InitCommon /\ [][NextProject]_vars

----------------------------------------------------------------------------
(* Claims on save_project called sequentially.                             *)

IsSaveProject == call.op = "save_project"

ReturnedStamp == call.value[1].updatedAt

\* C4 as claimed: a save_project whose payload carries an expected timestamp
\* older than the stored updatedAt by more than the tolerance raises the
\* version conflict and leaves the store as it was.
C4_StaleTokenRejected ==
    IsSaveProject =>
        LET expected == Carried(call.arg.tokens)
        IN (expected.given /\ call.arg.stored - expected.ts > Tolerance)
               => /\ call.status = "conflict"
                  /\ call.arg.before = <<db>>

\* C4, what the code does: the same for every carried timestamp but a
\* clientUpdatedAt of 0.
C4_NonZeroStaleTokenRejected ==
    IsSaveProject =>
        LET expected == Carried(call.arg.tokens)
        IN (expected.given /\ expected.ts # 0
                /\ call.arg.stored - expected.ts > Tolerance)
               => /\ call.status = "conflict"
                  /\ call.arg.before = <<db>>

C4_NonZeroWitness ==
    /\ IsSaveProject
    /\ call.status = "conflict"
    /\ call.arg.tokens.keys = {"expectedUpdatedAt"}
    /\ call.arg.tokens.expectedUpdatedAt = CreatedAt
    /\ db.project.name = "renamed"

\* the call carried no expected timestamp, or the stored updatedAt
FreshOrAbsent(c) ==
    LET expected == Carried(c.arg.tokens)
    IN ~expected.given \/ expected.ts = c.arg.stored

\* the call is the second of two that carry the timestamp read before the
\* first, and the first succeeded
SecondWithSameToken(c) ==
    LET expected == Carried(c.arg.tokens)
        first == c.arg.prev
    IN /\ first.op = "save_project"
       /\ first.status = "ok"
       /\ first.expected.given
       /\ first.expected.ts = first.stored
       /\ expected = first.expected

\* C5 as claimed: a save_project of a well-formed payload with no expected
\* timestamp, or with the stored updatedAt, succeeds, stores a stamp greater
\* than the one before and returns it; the second of two sequential calls
\* with the timestamp read before the first raises the version conflict.
C5_FreshTokenSucceeds ==
    IsSaveProject =>
        /\ (call.arg.valid /\ FreshOrAbsent(call))
               => /\ call.status = "ok"
                  /\ ReturnedStamp > call.arg.stored
                  /\ ReturnedStamp = db.project.updatedAt
        /\ SecondWithSameToken(call) => call.status = "conflict"

\* C5 where no earlier save left its transaction open: the same holds.
C5_FreshTokenSucceedsUnwedged ==
    IsSaveProject =>
        /\ (call.arg.valid /\ call.arg.healthy /\ FreshOrAbsent(call))
               => /\ call.status = "ok"
                  /\ ReturnedStamp > call.arg.stored
                  /\ ReturnedStamp = db.project.updatedAt
        /\ (call.arg.valid /\ FreshOrAbsent(call)) => call.status # "conflict"
        /\ SecondWithSameToken(call) => call.status = "conflict"

C5_UnwedgedWitness ==
    /\ IsSaveProject
    /\ SecondWithSameToken(call)
    /\ call.status = "conflict"
    /\ call.arg.prev.stored > CreatedAt

\* C25 (as claimed): a save_project whose payload has no 'pages' key, or an
\* empty list, and that passes the version check leaves no page and no
\* companion row in the store.
C25_EmptySaveRemovesPages ==
    IsSaveProject /\ call.arg.empty /\ call.status # "conflict"
        => DOMAIN db.page_latex = {} /\ CompanionIds(db) = {}

\* C25 where no earlier save left its transaction open: the same holds.
C25_EmptySaveRemovesPagesUnwedged ==
    IsSaveProject /\ call.arg.empty /\ call.arg.healthy /\ call.status # "conflict"
        => call.status = "ok" /\ DOMAIN db.page_latex = {} /\ CompanionIds(db) = {}

C25_UnwedgedWitness ==
    /\ IsSaveProject /\ call.arg.empty /\ call.status = "ok"
    /\ ~call.arg.pages_key
    /\ call.arg.stored_ids # {}
    /\ DOMAIN db.page_latex = {}

----------------------------------------------------------------------------
(* SpecPassword: save_workspace_password, clear_workspace_password and     *)
(* verify_workspace_password called one after the other on one             *)
(* BenortPackage.  `pwd` holds the password of the last save that returned *)
(* as the caller gave it, and is empty when none was saved since the last  *)
(* clear.                                                                  *)

\* werkzeug's generate_password_hash / check_password_hash: a non-blank
\* string that accepts the hashed password and nothing else
GeneratePasswordHash(password) == <<"#">> \o password

CheckPasswordHash(password_hash, candidate) == password_hash = GeneratePasswordHash(candidate)

\* get_workspace_password_hash: None for a missing or blank entry
GetWorkspacePasswordHash(d) ==
    IF Strip(d.passwordHash) = <<>> THEN <<>> ELSE d.passwordHash

\* (new_password or "").strip()
NormalizedPassword(new_password) == Strip(new_password)

\* (mutation of Candidate: the candidate is checked as given)
RawCandidate(password) == password

\* (password or "").strip()
Candidate(password) == Strip(password)

VerifyPassword(d, password) ==
    LET password_hash == GetWorkspacePasswordHash(d)
        candidate == Candidate(password)
    IN IF password_hash = <<>> THEN TRUE
       ELSE IF candidate = <<>> THEN FALSE
       ELSE CheckPasswordHash(password_hash, candidate)

PasswordChars == {"s", "t", " "}

MaxPassword == 2

Passwords == ListsUpTo(PasswordChars, MaxPassword)

OtherThanPassword == <<txn, now, saved, pc, loc, lockOwner, boundary, registry, sidecar, auth>>

SaveWorkspacePassword(new_password) ==
    LET normalized == NormalizedPassword(new_password)
        newdb == [db EXCEPT !.passwordHash = GeneratePasswordHash(normalized)]
    IN IF normalized = <<>>
       THEN /\ call' = [op |-> "save_workspace_password", status |-> "ValueError",
                        arg |-> new_password, value |-> <<>>]
            /\ UNCHANGED <<db, disk, pwd>>
            /\ UNCHANGED OtherThanPassword
       ELSE /\ db' = newdb
            /\ disk' = IF txn THEN disk ELSE newdb
            /\ pwd' = <<new_password>>
            /\ call' = [op |-> "save_workspace_password", status |-> "ok",
                        arg |-> new_password, value |-> <<>>]
            /\ UNCHANGED OtherThanPassword

ClearWorkspacePassword ==
    LET newdb == [db EXCEPT !.passwordHash = <<>>]
    IN /\ db' = newdb
       /\ disk' = IF txn THEN disk ELSE newdb
       /\ pwd' = <<>>
       /\ call' = [op |-> "clear_workspace_password", status |-> "ok", arg |-> <<>>,
                   value |-> <<>>]
       /\ UNCHANGED OtherThanPassword

VerifyWorkspacePassword(password) ==
    /\ call' = [op |-> "verify_workspace_password", status |-> "ok", arg |-> password,
                value |-> <<VerifyPassword(db, password)>>]
    /\ UNCHANGED <<db, disk, pwd>>
    /\ UNCHANGED OtherThanPassword

NextPassword ==
    \/ \E new_password \in Passwords : SaveWorkspacePassword(new_password)
    \/ ClearWorkspacePassword
    \/ \E password \in Passwords : VerifyWorkspacePassword(password)

SpecPassword == InitCommon /\ [][NextPassword]_vars

IsVerify == call.op = "verify_workspace_password"

\* C9 as claimed: with no password saved since the start or the last clear
\* verify_workspace_password is true for every candidate; after
\* save_workspace_password(x) it is true for x and false for every y other
\* than x.
C9_AsClaimed ==
    IsVerify => call.value = <<pwd = <<>> \/ call.arg = pwd[1]>>

\* C9 as amended: with no password saved since the start or the last clear
\* verify_workspace_password is true for every candidate; after a
\* save_workspace_password(x) that returned it is true for exactly the
\* candidates that equal x once both are stripped of surrounding blanks.
C9_PasswordLifecycle ==
    /\ IsVerify => call.value = <<pwd = <<>> \/ Strip(call.arg) = Strip(pwd[1])>>
    /\ (pwd = <<>>) = (GetWorkspacePasswordHash(db) = <<>>)

C9_Witness ==
    /\ IsVerify
    /\ pwd # <<>>
    /\ call.arg # pwd[1]
    /\ Len(call.arg) < Len(pwd[1])
    /\ call.value = <<TRUE>>

----------------------------------------------------------------------------
(* SpecThreads: two threads of one process call save_pages, list_pages,    *)
(* save_project and export_project on one BenortPackage.  A step is what a *)
(* thread does between two points where the other can run: a method that  *)
(* takes self._lock for its whole body is one step, save_pages and         *)
(* list_pages, which hold the lock over several statements, are split at   *)
(* their statements.  Both threads use the one sqlite connection, so each  *)
(* reads what the other wrote, committed or not.                           *)

MaxCalls == 2

Other(t) == CHOOSE u \in Threads : u # t

\* (mutation of CanLock: no lock is taken)
NoLock(t) == TRUE

\* `with self._lock`: the RLock is free or already held by the thread
CanLock(t) == lockOwner \in {"none", t}

PageB == Page(T("b"), T("y"), <<>>, <<>>, <<>>, <<>>, NoDict)

ThreadPages == {<<PageA>>, <<PageB, PageAPadded>>}

ThreadPayloads ==
    {WithTokens(Payload({"pages", "resources", "project"}, 0, 0, <<PageA>>, "", "",
                        <<T("r")>>, <<>>, "renamed", ""),
                {"clientUpdatedAt"}, CreatedAt, 0),
     WithTokens(Payload({"pages", "template", "markdownTemplate", "bib"}, 0, 0,
                        <<PageB, PageAPadded>>, "custom", "custom", <<>>,
                        <<BibStr(T("e"))>>, "", ""),
                {"expectedUpdatedAt"}, 0, CreatedAt)}

Running(t) == pc[t] \notin {"idle", "done"}

\* the thread is between the first and the last write of a save_pages
MidPages(u) == pc[u] \in {"pg_write", "pg_commit"}

\* the thread is between the first and the last write of a whole save
MidProject(u) ==
    \/ MidPages(u)
    \/ pc[u] \in {"sj_template", "sj_markdownTemplate", "sj_resources", "sj_bib", "sj_meta"}

\* a statement outside an explicit transaction commits at once
Committed(newdb) == IF txn THEN disk ELSE newdb

\* the locals a finished call keeps: its payload, status and result
Finished(l, status) ==
    [IdleLocal EXCEPT !.op = l.op, !.payload = l.payload, !.out = l.out,
                      !.status = status, !.stored = l.stored, !.overlap = l.overlap,
                      !.n = l.n]

\* the store between two saves joins the stores a reader of the other
\* thread may return: after every save_pages for list_pages, after a
\* save_pages called on its own or a whole save_project for export_project,
\* after a save_pages that committed for snapshot_to
AfterPages(u, newdb) ==
    [v \in Threads |->
        IF v # u /\ Running(v)
              /\ \/ loc[v].op = "list_pages"
                 \/ loc[v].op = "export_project" /\ loc[u].op = "save_pages"
                 \/ loc[v].op = "snapshot_to" /\ pc[u] = "pg_commit"
        THEN boundary[v] \cup {newdb} ELSE boundary[v]]

AfterProject(u, newdb) ==
    [v \in Threads |->
        IF v # u /\ Running(v) /\ loc[v].op = "export_project"
        THEN boundary[v] \cup {newdb} ELSE boundary[v]]

OtherThanThreads == <<call, saved, pwd, registry, sidecar, auth>>

\* save_pages(pages) is called: the pages are normalised before the lock
BeginSavePages(t, pages) ==
    /\ pc[t] = "idle"
    /\ loc[t].n < MaxCalls
    /\ pc' = [pc EXCEPT ![t] = "pg_begin"]
    /\ loc' = [loc EXCEPT ![t] =
                  [IdleLocal EXCEPT !.op = "save_pages", !.n = loc[t].n + 1,
                                    !.normalized = NormalizeAll(pages, FreshGens(db, pages))]]
    /\ UNCHANGED <<db, disk, txn, now, lockOwner, boundary>>
    /\ UNCHANGED OtherThanThreads

BeginSaveProject(t, payload) ==
    /\ pc[t] = "idle"
    /\ loc[t].n < MaxCalls
    /\ pc' = [pc EXCEPT ![t] = "sj_check"]
    /\ loc' = [loc EXCEPT ![t] =
                  [IdleLocal EXCEPT !.op = "save_project", !.n = loc[t].n + 1,
                                    !.payload = payload,
                                    !.stored = db.project.updatedAt]]
    /\ UNCHANGED <<db, disk, txn, now, lockOwner, boundary>>
    /\ UNCHANGED OtherThanThreads

\* list_pages() is called: what it may return is the store as it is, or as
\* it was before the save_pages the other thread is in
BeginListPages(t) ==
    LET u == Other(t)
    IN /\ pc[t] = "idle"
       /\ loc[t].n < MaxCalls
       /\ pc' = [pc EXCEPT ![t] = "lp_latex"]
       /\ loc' = [loc EXCEPT ![t] =
                     [IdleLocal EXCEPT !.op = "list_pages", !.n = loc[t].n + 1,
                                       !.overlap = MidPages(u)]]
       /\ boundary' = [boundary EXCEPT ![t] =
                          IF MidPages(u) THEN {loc[u].before[1]} ELSE {db}]
       /\ UNCHANGED <<db, disk, txn, now, lockOwner>>
       /\ UNCHANGED OtherThanThreads

BeginExportProject(t) ==
    LET u == Other(t)
    IN /\ pc[t] = "idle"
       /\ loc[t].n < MaxCalls
       /\ pc' = [pc EXCEPT ![t] = "lp_latex"]
       /\ loc' = [loc EXCEPT ![t] =
                     [IdleLocal EXCEPT !.op = "export_project", !.n = loc[t].n + 1,
                                       !.overlap = MidProject(u)]]
       /\ boundary' = [boundary EXCEPT ![t] =
                          IF MidProject(u) THEN {loc[u].before[1]} ELSE {db}]
       /\ UNCHANGED <<db, disk, txn, now, lockOwner>>
       /\ UNCHANGED OtherThanThreads

\* save_project, lines 1347-1365: the stored metadata is read and the
\* expected timestamp checked against it
SaveProjectCheck(t) ==
    LET payload == loc[t].payload
        existing_meta == db.project
        pages == IF "pages" \in payload.keys THEN payload.pages ELSE <<>>
    IN /\ pc[t] = "sj_check"
       /\ CanLock(t)
       /\ IF VersionConflict(payload, existing_meta)
          THEN /\ pc' = [pc EXCEPT ![t] = "done"]
               /\ loc' = [loc EXCEPT ![t] = Finished(@, "conflict")]
          ELSE /\ pc' = [pc EXCEPT ![t] = "pg_begin"]
               /\ loc' = [loc EXCEPT ![t].existing_meta = existing_meta,
                                     ![t].normalized =
                                         NormalizeAll(pages, FreshGens(db, pages))]
       /\ UNCHANGED <<db, disk, txn, now, lockOwner, boundary>>
       /\ UNCHANGED OtherThanThreads

\* save_pages, lines 1129-1131: the lock, BEGIN IMMEDIATE, the stored ids
SavePagesBegin(t) ==
    /\ pc[t] = "pg_begin"
    /\ CanLock(t)
    /\ IF txn
       THEN /\ pc' = [pc EXCEPT ![t] = "done"]
            /\ loc' = [loc EXCEPT ![t] = Finished(@, "begin_failed")]
            /\ UNCHANGED <<txn, lockOwner>>
       ELSE /\ pc' = [pc EXCEPT ![t] =
                         IF loc[t].normalized = <<>> THEN "pg_commit" ELSE "pg_write"]
            /\ loc' = [loc EXCEPT ![t].existing_ids = DOMAIN db.page_latex,
                                  ![t].before = <<db>>,
                                  ![t].i = 0]
            /\ txn' = TRUE
            /\ lockOwner' = t
    /\ UNCHANGED <<db, disk, now, boundary>>
    /\ UNCHANGED OtherThanThreads

\* save_pages, lines 1133-1141: one turn of the loop
SavePagesWrite(t) ==
    LET run == WritePage(db, loc[t].i, loc[t].normalized[loc[t].i + 1])
    IN /\ pc[t] = "pg_write"
       /\ db' = run.db
       /\ IF run.ok
          THEN /\ pc' = [pc EXCEPT ![t] =
                            IF loc[t].i + 1 = Len(loc[t].normalized)
                            THEN "pg_commit" ELSE "pg_write"]
               /\ loc' = [loc EXCEPT ![t].i = @ + 1]
               /\ UNCHANGED <<lockOwner, boundary>>
          ELSE /\ pc' = [pc EXCEPT ![t] = "done"]
               /\ loc' = [loc EXCEPT ![t] = Finished(@, "raised")]
               /\ lockOwner' = "none"
               /\ boundary' = AfterPages(t, run.db)
       /\ UNCHANGED <<disk, txn, now>>
       /\ UNCHANGED OtherThanThreads

\* where save_project goes on after the write named `after`
AfterWrite(payload, after) ==
    LET order == <<"pages", "template", "markdownTemplate", "resources", "bib">>
        label == <<"pg_begin", "sj_template", "sj_markdownTemplate", "sj_resources",
                   "sj_bib">>
        rest == {i \in DOMAIN order :
                    /\ i > (CHOOSE j \in DOMAIN order : order[j] = after)
                    /\ order[i] \in payload.keys}
    IN IF rest = {} THEN "sj_meta"
       ELSE label[CHOOSE i \in rest : \A j \in rest : i <= j]

\* save_pages, lines 1142-1149: the stale ids are deleted, commit, unlock
SavePagesCommit(t) ==
    LET to_delete == loc[t].existing_ids \ DesiredIds(loc[t].normalized)
        newdb == DeleteDoomed(db, to_delete)
    IN /\ pc[t] = "pg_commit"
       /\ db' = newdb
       /\ disk' = newdb
       /\ txn' = FALSE
       /\ lockOwner' = "none"
       /\ boundary' = AfterPages(t, newdb)
       /\ IF loc[t].op = "save_pages"
          THEN /\ pc' = [pc EXCEPT ![t] = "done"]
               /\ loc' = [loc EXCEPT ![t] = Finished(@, "ok")]
          ELSE /\ pc' = [pc EXCEPT ![t] = AfterWrite(loc[t].payload, "pages")]
               /\ loc' = [loc EXCEPT ![t].normalized = <<>>, ![t].existing_ids = {},
                                     ![t].i = 0]
       /\ UNCHANGED now
       /\ UNCHANGED OtherThanThreads

\* save_project, lines 1367-1374: one locked write each
SaveProjectTemplate(t) ==
    LET newdb == SaveTemplate(db, "latex", loc[t].payload.template)
    IN /\ pc[t] = "sj_template"
       /\ CanLock(t)
       /\ db' = newdb
       /\ disk' = Committed(newdb)
       /\ pc' = [pc EXCEPT ![t] = AfterWrite(loc[t].payload, "template")]
       /\ UNCHANGED <<txn, now, loc, lockOwner, boundary>>
       /\ UNCHANGED OtherThanThreads

SaveProjectMarkdownTemplate(t) ==
    LET newdb == SaveTemplate(db, "markdown", loc[t].payload.markdownTemplate)
    IN /\ pc[t] = "sj_markdownTemplate"
       /\ CanLock(t)
       /\ db' = newdb
       /\ disk' = Committed(newdb)
       /\ pc' = [pc EXCEPT ![t] = AfterWrite(loc[t].payload, "markdownTemplate")]
       /\ UNCHANGED <<txn, now, loc, lockOwner, boundary>>
       /\ UNCHANGED OtherThanThreads

SaveProjectResources(t) ==
    LET newdb == ReplaceProjectResources(db, loc[t].payload.resources)
    IN /\ pc[t] = "sj_resources"
       /\ CanLock(t)
       /\ db' = newdb
       /\ disk' = Committed(newdb)
       /\ pc' = [pc EXCEPT ![t] = AfterWrite(loc[t].payload, "resources")]
       /\ UNCHANGED <<txn, now, loc, lockOwner, boundary>>
       /\ UNCHANGED OtherThanThreads

SaveProjectBib(t) ==
    LET refs == ReplaceProjectReferences(db, loc[t].payload.bib)
    IN /\ pc[t] = "sj_bib"
       /\ CanLock(t)
       /\ db' = refs.db
       /\ disk' = Committed(refs.db)
       /\ IF refs.ok
          THEN /\ pc' = [pc EXCEPT ![t] = AfterWrite(loc[t].payload, "bib")]
               /\ UNCHANGED <<loc, boundary>>
          ELSE /\ pc' = [pc EXCEPT ![t] = "done"]
               /\ loc' = [loc EXCEPT ![t] = Finished(@, "error")]
               /\ boundary' = AfterProject(t, refs.db)
       /\ UNCHANGED <<txn, now, lockOwner>>
       /\ UNCHANGED OtherThanThreads

\* save_project, lines 1375-1383: the metadata read at the start is stamped
\* with the clock and written back; export_project follows
SaveProjectMeta(t) ==
    LET stamp == now + ClockStep
        newdb == [db EXCEPT !.project =
                     StampedMeta(loc[t].existing_meta, loc[t].payload, stamp)]
    IN /\ pc[t] = "sj_meta"
       /\ CanLock(t)
       /\ stamp <= MaxTime
       /\ now' = stamp
       /\ db' = newdb
       /\ disk' = Committed(newdb)
       /\ boundary' = AfterProject(t, newdb)
       /\ pc' = [pc EXCEPT ![t] = "lp_latex"]
       /\ loc' = [loc EXCEPT ![t].before = <<>>, ![t].existing_meta = <<>>]
       /\ UNCHANGED <<txn, lockOwner>>
       /\ UNCHANGED OtherThanThreads

\* list_pages, lines 1085-1088: the lock and the select on page_latex
ListPagesLatex(t) ==
    /\ pc[t] = "lp_latex"
    /\ CanLock(t)
    /\ lockOwner' = t
    /\ pc' = [pc EXCEPT ![t] = "lp_rest"]
    /\ loc' = [loc EXCEPT ![t].rows = <<db.page_latex>>]
    /\ UNCHANGED <<db, disk, txn, now, boundary>>
    /\ UNCHANGED OtherThanThreads

\* the export a thread is assembling, before its first read
NoExport == [project |-> "", updatedAt |-> 0, pages |-> <<>>, template |-> "",
             markdownTemplate |-> "", resources |-> <<>>, bib |-> <<>>, llm |-> ""]

\* list_pages, lines 1089-1123: the four other selects, unlock, the records
ListPagesRest(t) ==
    LET pages == ListPages([db EXCEPT !.page_latex = loc[t].rows[1]])
    IN /\ pc[t] = "lp_rest"
       /\ lockOwner' = "none"
       /\ IF loc[t].op = "list_pages"
          THEN /\ pc' = [pc EXCEPT ![t] = "done"]
               /\ loc' = [loc EXCEPT ![t] = Finished([@ EXCEPT !.out = pages], "ok")]
          ELSE /\ pc' = [pc EXCEPT ![t] = "ex_template"]
               /\ loc' = [loc EXCEPT ![t].rows = <<>>,
                                     ![t].out = [NoExport EXCEPT !.pages = pages]]
       /\ UNCHANGED <<db, disk, txn, now, boundary>>
       /\ UNCHANGED OtherThanThreads

\* export_project, lines 1326-1332: one locked read each
ExportTemplate(t) ==
    LET block == GetTemplateBlock(db, "latex")
    IN /\ pc[t] = "ex_template"
       /\ CanLock(t)
       /\ db' = block.db
       /\ disk' = Committed(block.db)
       /\ pc' = [pc EXCEPT ![t] = "ex_markdownTemplate"]
       /\ loc' = [loc EXCEPT ![t].out.template = block.data]
       /\ UNCHANGED <<txn, now, lockOwner, boundary>>
       /\ UNCHANGED OtherThanThreads

ExportMarkdownTemplate(t) ==
    LET block == GetTemplateBlock(db, "markdown")
    IN /\ pc[t] = "ex_markdownTemplate"
       /\ CanLock(t)
       /\ db' = block.db
       /\ disk' = Committed(block.db)
       /\ pc' = [pc EXCEPT ![t] = "ex_meta"]
       /\ loc' = [loc EXCEPT ![t].out.markdownTemplate = block.data]
       /\ UNCHANGED <<txn, now, lockOwner, boundary>>
       /\ UNCHANGED OtherThanThreads

ExportMeta(t) ==
    /\ pc[t] = "ex_meta"
    /\ CanLock(t)
    /\ pc' = [pc EXCEPT ![t] = "ex_resources"]
    /\ loc' = [loc EXCEPT ![t].out.project = db.project.name,
                          ![t].out.updatedAt = db.project.updatedAt,
                          ![t].out.llm = db.project.llm]
    /\ UNCHANGED <<db, disk, txn, now, lockOwner, boundary>>
    /\ UNCHANGED OtherThanThreads

ExportResources(t) ==
    /\ pc[t] = "ex_resources"
    /\ CanLock(t)
    /\ pc' = [pc EXCEPT ![t] = "ex_references"]
    /\ loc' = [loc EXCEPT ![t].out.resources = ListProjectResources(db)]
    /\ UNCHANGED <<db, disk, txn, now, lockOwner, boundary>>
    /\ UNCHANGED OtherThanThreads

ExportReferences(t) ==
    /\ pc[t] = "ex_references"
    /\ CanLock(t)
    /\ pc' = [pc EXCEPT ![t] = "done"]
    /\ loc' = [loc EXCEPT ![t] =
                  Finished([@ EXCEPT !.out.bib = ListProjectReferences(db)], "ok")]
    /\ UNCHANGED <<db, disk, txn, now, lockOwner, boundary>>
    /\ UNCHANGED OtherThanThreads

\* the call returns or raises to its caller, which may call again
Return(t) ==
    /\ pc[t] = "done"
    /\ pc' = [pc EXCEPT ![t] = "idle"]
    /\ loc' = [loc EXCEPT ![t] = [IdleLocal EXCEPT !.n = loc[t].n]]
    /\ boundary' = [boundary EXCEPT ![t] = {}]
    /\ UNCHANGED <<db, disk, txn, now, lockOwner>>
    /\ UNCHANGED OtherThanThreads

NextThreads ==
    \E t \in Threads :
        \/ \E pages \in ThreadPages : BeginSavePages(t, pages)
        \/ \E payload \in ThreadPayloads : BeginSaveProject(t, payload)
        \/ BeginListPages(t)
        \/ BeginExportProject(t)
        \/ SaveProjectCheck(t)
        \/ SavePagesBegin(t)
        \/ SavePagesWrite(t)
        \/ SavePagesCommit(t)
        \/ SaveProjectTemplate(t)
        \/ SaveProjectMarkdownTemplate(t)
        \/ SaveProjectResources(t)
        \/ SaveProjectBib(t)
        \/ SaveProjectMeta(t)
        \/ ListPagesLatex(t)
        \/ ListPagesRest(t)
        \/ ExportTemplate(t)
        \/ ExportMarkdownTemplate(t)
        \/ ExportMeta(t)
        \/ ExportResources(t)
        \/ ExportReferences(t)
        \/ Return(t)

SpecThreads == InitCommon /\ [][NextThreads]_vars

----------------------------------------------------------------------------
(* Claims on concurrent calls *)

Returned(t, op) == pc[t] = "done" /\ loc[t].op = op

\* both threads called save_project with the same expected timestamp, the
\* stored updatedAt when each of them was called
SameTokenBothFresh ==
    /\ \A t \in Threads : Returned(t, "save_project")
    /\ \A t \in Threads :
          /\ Carried(loc[t].payload).given
          /\ Carried(loc[t].payload).ts = loc[t].stored
    /\ Carried(loc["t1"].payload).ts = Carried(loc["t2"].payload).ts

\* C6 as claimed: of two concurrent save_project calls that carry the same
\* expected timestamp, equal to the stored updatedAt, at most one succeeds
\* and the other raises the version conflict.
C6_AtMostOneSucceeds ==
    SameTokenBothFresh =>
        \A t \in Threads : loc[t].status = "ok" => loc[Other(t)].status = "conflict"

C8_ExportPointInTime ==
    \A t \in Threads :
        Returned(t, "export_project") => \E d \in boundary[t] : loc[t].out = ExportProject(d)

----------------------------------------------------------------------------
(* SpecWorkspace: the workspace registry of workspace.py over one package  *)
(* file.  `registry` is _REGISTRY, the handles of this process by          *)
(* workspace id; `sidecar` is the shared registry directory, one record    *)
(* per id, which outlives the process; `db.passwordHash` is the security   *)
(* record of the file.  `auth` tells, per id, whether its handle was       *)
(* unlocked by a caller who gave or chose the password since the handle    *)
(* was opened or recovered.                                                *)

WorkspaceIds == {"w1", "w2"}

\* passwords a caller passes; the empty one stands for None as well
NoPassword == <<>>

NewPasswords == {T("s"), T("t"), T(" ")}

CurrentPasswords == {NoPassword, T("s"), T("t"), T(" "), <<" ", "s">>}

HasWorkspacePassword(d) == GetWorkspacePasswordHash(d) # <<>>

\* WorkspaceHandle as the dataclass builds it
NewHandle == [locked |-> FALSE, unlocked |-> TRUE]

RefreshHandleSecurity(handle, d, preserve_unlock) ==
    LET has_password == HasWorkspacePassword(d)
    IN [locked |-> has_password,
        unlocked |-> IF ~has_password THEN TRUE ELSE preserve_unlock /\ handle.unlocked]

\* _refresh_handle_security(..., persist=True) on the handle of w
PersistIfChanged(records, w, before, after) ==
    IF after # before THEN Put(records, w, after) ELSE records

\* get_workspace: the registered handle, or the one recovered from the
\* shared record, refreshed, registered and persisted
GetWorkspace(w) ==
    IF w \in DOMAIN registry
    THEN [found |-> TRUE, recovered |-> FALSE, handle |-> registry[w],
          registry |-> registry, sidecar |-> sidecar]
    ELSE IF w \in DOMAIN sidecar
         THEN LET record == sidecar[w]
                  handle == RefreshHandleSecurity(record, db, TRUE)
              IN [found |-> TRUE, recovered |-> TRUE, handle |-> handle,
                  registry |-> Put(registry, w, handle),
                  sidecar |-> Put(sidecar, w, handle)]
         ELSE [found |-> FALSE, recovered |-> FALSE, handle |-> NewHandle,
               registry |-> registry, sidecar |-> sidecar]

\* a recovered handle starts with no unlock of its own
AuthAfter(got, w) == IF got.recovered THEN Put(auth, w, FALSE) ELSE auth

\* (mutation of PasswordPermitted: a call with no current password passes)
PermittedUnasked(handle, d, current_password) ==
    LET normalized == Strip(current_password)
    IN IF ~HasWorkspacePassword(d) THEN TRUE
       ELSE IF normalized # <<>> THEN VerifyPassword(d, normalized)
       ELSE TRUE

\* _ensure_password_permission
PasswordPermitted(handle, d, current_password) ==
    LET normalized == Strip(current_password)
    IN IF ~HasWorkspacePassword(d) THEN TRUE
       ELSE IF normalized # <<>> THEN VerifyPassword(d, normalized)
       ELSE handle.unlocked

WsCall(op, w, status) == [op |-> op, status |-> status, arg |-> w, value |-> <<>>]

\* a password change as called: the id and the passwords given
WsPasswordCall(op, w, new_password, current_password, status) ==
    [op |-> op, status |-> status,
     arg |-> [id |-> w, new |-> new_password, current |-> current_password],
     value |-> <<>>]

OtherThanWorkspace == <<txn, now, saved, pwd, pc, loc, lockOwner, boundary>>

\* open_local_workspace on the file, under a new uuid
OpenLocalWorkspace(w) ==
    LET handle == RefreshHandleSecurity(NewHandle, db, FALSE)
    IN /\ w \notin DOMAIN registry
       /\ w \notin DOMAIN sidecar
       /\ registry' = Put(registry, w, handle)
       /\ sidecar' = Put(sidecar, w, handle)
       /\ auth' = Put(auth, w, FALSE)
       /\ call' = WsCall("open_local_workspace", w, "ok")
       /\ UNCHANGED <<db, disk>>
       /\ UNCHANGED OtherThanWorkspace

ListWorkspaces ==
    LET refreshed == [w \in DOMAIN registry |->
                         RefreshHandleSecurity(registry[w], db, TRUE)]
    IN /\ registry' = refreshed
       /\ sidecar' = [w \in (DOMAIN sidecar) \cup {x \in DOMAIN registry :
                                                     refreshed[x] # registry[x]} |->
                         IF w \in DOMAIN registry /\ refreshed[w] # registry[w]
                         THEN refreshed[w] ELSE sidecar[w]]
       /\ call' = WsCall("list_workspaces", "", "ok")
       /\ UNCHANGED <<db, disk, auth>>
       /\ UNCHANGED OtherThanWorkspace

GetWorkspacePackage(w) ==
    LET got == GetWorkspace(w)
        status == IF ~got.found THEN "WorkspaceNotFoundError"
                  ELSE IF got.handle.locked /\ ~got.handle.unlocked
                  THEN "WorkspaceLockedError"
                  ELSE "ok"
    IN /\ registry' = got.registry
       /\ sidecar' = got.sidecar
       /\ auth' = AuthAfter(got, w)
       /\ call' = WsCall("get_workspace_package", w, status)
       /\ UNCHANGED <<db, disk>>
       /\ UNCHANGED OtherThanWorkspace

\* set_workspace_password and clear_workspace_password after get_workspace:
\* the permission check, the write, handle.unlocked = True, the refresh
ChangePassword(op, w, newdb, new_password, current_password) ==
    LET got == GetWorkspace(w)
        permitted == PasswordPermitted(got.handle, db, current_password)
        unlocked == [got.handle EXCEPT !.unlocked = TRUE]
        handle == RefreshHandleSecurity(unlocked, newdb, TRUE)
        status == IF ~got.found THEN "WorkspaceNotFoundError"
                  ELSE IF ~permitted THEN "PermissionError" ELSE "ok"
    IN /\ call' = WsPasswordCall(op, w, new_password, current_password, status)
       /\ IF status = "ok"
          THEN /\ db' = newdb
               /\ disk' = newdb
               /\ registry' = Put(got.registry, w, handle)
               /\ sidecar' = PersistIfChanged(got.sidecar, w, unlocked, handle)
               /\ auth' = Put(auth, w, TRUE)
          ELSE /\ registry' = got.registry
               /\ sidecar' = got.sidecar
               /\ auth' = AuthAfter(got, w)
               /\ UNCHANGED <<db, disk>>
       /\ UNCHANGED OtherThanWorkspace

SetWorkspacePassword(w, new_password, current_password) ==
    IF Strip(new_password) = <<>>
    THEN /\ call' = WsPasswordCall("set_workspace_password", w, new_password,
                                   current_password, "ValueError")
         /\ UNCHANGED <<db, disk, registry, sidecar, auth>>
         /\ UNCHANGED OtherThanWorkspace
    ELSE ChangePassword("set_workspace_password", w,
                        [db EXCEPT !.passwordHash =
                            GeneratePasswordHash(NormalizedPassword(new_password))],
                        new_password, current_password)

ClearWorkspacePasswordOf(w, current_password) ==
    ChangePassword("clear_workspace_password", w, [db EXCEPT !.passwordHash = <<>>],
                   NoPassword, current_password)

\* (mutation of UnlockWorkspace: the password is not verified)
UnlockWorkspaceUnverified(w, password) ==
    LET got == GetWorkspace(w)
        unlocked == [got.handle EXCEPT !.unlocked = TRUE]
        handle == RefreshHandleSecurity(unlocked, db, TRUE)
        status == IF ~got.found THEN "WorkspaceNotFoundError"
                  ELSE IF Strip(password) = <<>> THEN "ValueError"
                  ELSE "ok"
    IN /\ call' = WsPasswordCall("unlock_workspace", w, NoPassword, password, status)
       /\ IF status = "ok"
          THEN /\ registry' = Put(got.registry, w, handle)
               /\ sidecar' = PersistIfChanged(got.sidecar, w, unlocked, handle)
               /\ auth' = Put(auth, w, TRUE)
          ELSE /\ registry' = got.registry
               /\ sidecar' = got.sidecar
               /\ auth' = AuthAfter(got, w)
       /\ UNCHANGED <<db, disk>>
       /\ UNCHANGED OtherThanWorkspace

UnlockWorkspace(w, password) ==
    LET got == GetWorkspace(w)
        unlocked == [got.handle EXCEPT !.unlocked = TRUE]
        handle == RefreshHandleSecurity(unlocked, db, TRUE)
        status == IF ~got.found THEN "WorkspaceNotFoundError"
                  ELSE IF Strip(password) = <<>> THEN "ValueError"
                  ELSE IF ~VerifyPassword(db, Strip(password)) THEN "PermissionError"
                  ELSE "ok"
    IN /\ call' = WsPasswordCall("unlock_workspace", w, NoPassword, password, status)
       /\ IF status = "ok"
          THEN /\ registry' = Put(got.registry, w, handle)
               /\ sidecar' = PersistIfChanged(got.sidecar, w, unlocked, handle)
               /\ auth' = Put(auth, w, TRUE)
          ELSE /\ registry' = got.registry
               /\ sidecar' = got.sidecar
               /\ auth' = AuthAfter(got, w)
       /\ UNCHANGED <<db, disk>>
       /\ UNCHANGED OtherThanWorkspace

CloseWorkspace(w) ==
    /\ sidecar' = Drop(sidecar, {w})
    /\ registry' = Drop(registry, {w})
    /\ auth' = Drop(auth, {w})
    /\ call' = WsCall("close_workspace", w, "ok")
    /\ UNCHANGED <<db, disk>>
    /\ UNCHANGED OtherThanWorkspace

\* the process ends and another starts: _REGISTRY is empty again, the
\* shared records and the file remain
ProcessRestart ==
    /\ registry # NoHandles
    /\ registry' = NoHandles
    /\ call' = WsCall("restart", "", "ok")
    /\ UNCHANGED <<db, disk, sidecar, auth>>
    /\ UNCHANGED OtherThanWorkspace

NextWorkspace ==
    \/ \E w \in WorkspaceIds : OpenLocalWorkspace(w)
    \/ ListWorkspaces
    \/ \E w \in WorkspaceIds : GetWorkspacePackage(w)
    \/ \E w \in WorkspaceIds : \E new_password \in NewPasswords :
          \E current_password \in CurrentPasswords :
             SetWorkspacePassword(w, new_password, current_password)
    \/ \E w \in WorkspaceIds : \E current_password \in CurrentPasswords :
          ClearWorkspacePasswordOf(w, current_password)
    \/ \E w \in WorkspaceIds : \E password \in CurrentPasswords : UnlockWorkspace(w, password)
    \/ \E w \in WorkspaceIds : CloseWorkspace(w)
    \/ ProcessRestart

SpecWorkspace == InitCommon /\ [][NextWorkspace]_vars

\* C10 as claimed: get_workspace_package(id) raises WorkspaceLockedError
\* whenever the file has a password hash and the handle of that id was not
\* unlocked with the password since it was opened or recovered, and returns
\* the package when the file has no password hash.
C10_AccessGated ==
    (call.op = "get_workspace_package" /\ call.status # "WorkspaceNotFoundError") =>
        /\ (HasWorkspacePassword(db) /\ ~auth[call.arg])
               => call.status = "WorkspaceLockedError"
        /\ ~HasWorkspacePassword(db) => call.status = "ok"

IsPasswordChange(c) ==
    /\ c.op \in {"set_workspace_password", "clear_workspace_password"}
    /\ c.status # "WorkspaceNotFoundError"

\* the handle get_workspace hands to the call: the registered one, or the
\* one recovered from the shared record
HandleGiven(w) == GetWorkspace(w).handle

\* C11 as claimed: on a workspace whose file has a password hash,
\* set_workspace_password and clear_workspace_password raise PermissionError
\* and leave the hash and the handle's flags as they were, when the current
\* password given is not the password, or when none is given and the handle
\* is not unlocked.
C11_AsClaimed ==
    [][LET c == call'
           w == c.arg.id
           current == c.arg.current
       IN (/\ IsPasswordChange(c)
           /\ HasWorkspacePassword(db)
           /\ \/ current # NoPassword /\ ~CheckPasswordHash(db.passwordHash, current)
              \/ current = NoPassword /\ ~HandleGiven(w).unlocked)
              => /\ c.status = "PermissionError"
                 /\ db'.passwordHash = db.passwordHash
                 /\ registry'[w] = HandleGiven(w)]_vars

\* C11 as amended: on a workspace whose file has a password hash,
\* clear_workspace_password, and set_workspace_password with a new password
\* that is not blank, raise PermissionError and leave the hash and the
\* handle's flags as they were, when the current password given, stripped of
\* surrounding blanks, is not empty and is not the password, or when it is
\* absent or blank and the handle is not unlocked.
C11_PermissionDenied ==
    [][LET c == call'
           w == c.arg.id
           current == Strip(c.arg.current)
       IN (/\ IsPasswordChange(c)
           /\ c.status # "ValueError"
           /\ HasWorkspacePassword(db)
           /\ \/ current # <<>> /\ ~CheckPasswordHash(db.passwordHash, current)
              \/ current = <<>> /\ ~HandleGiven(w).unlocked)
              => /\ c.status = "PermissionError"
                 /\ db'.passwordHash = db.passwordHash
                 /\ disk'.passwordHash = disk.passwordHash
                 /\ registry'[w] = HandleGiven(w)]_vars

\* a change with no current password was refused on a registered handle
\* that is locked
C11_Witness ==
    /\ IsPasswordChange(call)
    /\ call.status = "PermissionError"
    /\ call.arg.current = NoPassword
    /\ HasWorkspacePassword(db)
    /\ call.arg.id \in DOMAIN registry
    /\ ~registry[call.arg.id].unlocked

\* the flags a call finds for an id: those of the registered handle, or
\* those of the shared record a handle would be recovered from
FlagsFound(w) ==
    IF w \in DOMAIN registry THEN <<registry[w]>>
    ELSE IF w \in DOMAIN sidecar THEN <<sidecar[w]>>
    ELSE <<>>

\* the handle of w, not unlocked on a file with a password hash, is
\* unlocked after the step
BecomesUnlocked(w) ==
    /\ HasWorkspacePassword(db)
    /\ FlagsFound(w) # <<>>
    /\ ~FlagsFound(w)[1].unlocked
    /\ w \in DOMAIN registry'
    /\ registry'[w].unlocked

\* the call was unlock_workspace, set_workspace_password or
\* clear_workspace_password on w, returned, and carried a password that
\* the file accepted
GaveThePassword(c, w, given) ==
    /\ c.op \in {"unlock_workspace", "set_workspace_password", "clear_workspace_password"}
    /\ c.status = "ok"
    /\ c.arg.id = w
    /\ given # <<>>
    /\ CheckPasswordHash(db.passwordHash, given)

\* C30: a handle that is not unlocked, on a file with a password hash,
\* becomes unlocked only in a call of unlock_workspace,
\* set_workspace_password or clear_workspace_password on its id that
\* returned and was given the password (the password given is the password
\* when the two are equal once stripped of surrounding blanks); no call of
\* list_workspaces or get_workspace, recovery from the shared record
\* included, and no unlock_workspace that raised unlocks it.
C30_UnlockedOnlyWithPassword ==
    [][\A w \in WorkspaceIds :
          BecomesUnlocked(w) => GaveThePassword(call', w, Strip(call'.arg.current))]_vars

\* unlock_workspace with a wrong password, get_workspace_package on a
\* handle recovered from its record and list_workspaces ran on a locked
\* handle, which an unlock_workspace with the password then unlocked
C30_Witness ==
    /\ call.op = "unlock_workspace"
    /\ call.status = "ok"
    /\ HasWorkspacePassword(db)
    /\ registry[call.arg.id].unlocked
    /\ ~sidecar[call.arg.id].unlocked

----------------------------------------------------------------------------
(* Assets.  attachments and resource_files are the rows of the table in    *)
(* rowid order: an INSERT gives the new row the rowid after the greatest,  *)
(* and a select that names no order returns rows by rowid, also through    *)
(* the index on name.  A row is [id, name, mime, data, page_id, metadata]; *)
(* the empty text stands for NULL.                                         *)

\* str.lower() on the capitals the model's texts hold
Lower(c) ==
    IF c = "A" THEN "a" ELSE IF c = "R" THEN "r" ELSE IF c = "O" THEN "o" ELSE c

LowerText(s) == [i \in DOMAIN s |-> Lower(s[i])]

Attachment == <<"a", "t", "t", "a", "c", "h", "m", "e", "n", "t">>

Resource == <<"r", "e", "s", "o", "u", "r", "c", "e">>

\* (mutation of AssetTableForScope: a scope that is neither counts as a
\* resource)
AssetTableOrResource(scope) ==
    IF LowerText(Strip(scope)) = Attachment THEN "attachments" ELSE "resource_files"

AssetTableForScope(scope) ==
    LET normalized == LowerText(Strip(scope))
    IN IF normalized = Attachment THEN "attachments"
       ELSE IF normalized = Resource THEN "resource_files"
       ELSE "ValueError"

AssetRows(d, table) == IF table = "attachments" THEN d.attachments ELSE d.resource_files

WithAssetRows(d, table, rows) ==
    IF table = "attachments" THEN [d EXCEPT !.attachments = rows]
    ELSE [d EXCEPT !.resource_files = rows]

RowToAsset(row, scope, include_data) ==
    [asset_id |-> row.id, name |-> row.name, scope |-> scope, mime |-> row.mime,
     data |-> IF include_data THEN <<row.data>> ELSE <<>>,
     metadata |-> Deserialize(row.metadata), page_id |-> row.page_id]

\* cursor.fetchone(): the first row the select finds, none as <<>>
FetchOne(rows, hits) ==
    IF hits = {} THEN <<>>
    ELSE <<rows[CHOOSE i \in hits : \A j \in hits : i <= j]>>

RowsWithId(rows, asset_id) == {i \in DOMAIN rows : rows[i].id = asset_id}

RowsNamed(rows, name) == {i \in DOMAIN rows : rows[i].name = name}

ListAssets(d, scope, include_data) ==
    LET rows == AssetRows(d, AssetTableForScope(scope))
    IN [i \in DOMAIN rows |-> RowToAsset(rows[i], scope, include_data)]

GetAsset(d, asset_id, include_data) ==
    LET attachment == FetchOne(d.attachments, RowsWithId(d.attachments, asset_id))
        resource == FetchOne(d.resource_files, RowsWithId(d.resource_files, asset_id))
    IN IF attachment # <<>> THEN <<RowToAsset(attachment[1], Attachment, include_data)>>
       ELSE IF resource # <<>> THEN <<RowToAsset(resource[1], Resource, include_data)>>
       ELSE <<>>

\* (mutation of FindAssetByName: a name unknown in the scope is looked up
\* in the other one)
FindAssetInAnyScope(d, scope, name, include_data) ==
    LET table == AssetTableForScope(scope)
        other == IF table = "attachments" THEN "resource_files" ELSE "attachments"
        row == FetchOne(AssetRows(d, table), RowsNamed(AssetRows(d, table), name))
        fallback == FetchOne(AssetRows(d, other), RowsNamed(AssetRows(d, other), name))
    IN IF row # <<>> THEN <<RowToAsset(row[1], scope, include_data)>>
       ELSE IF fallback # <<>> THEN <<RowToAsset(fallback[1], scope, include_data)>>
       ELSE <<>>

FindAssetByName(d, scope, name, include_data) ==
    LET rows == AssetRows(d, AssetTableForScope(scope))
        row == FetchOne(rows, RowsNamed(rows, name))
    IN IF row = <<>> THEN <<>> ELSE <<RowToAsset(row[1], scope, include_data)>>

AssetRow(asset_id, name, payload) ==
    [id |-> asset_id, name |-> name, mime |-> payload.mime, data |-> payload.data,
     page_id |-> payload.page_id, metadata |-> SerializeDict(payload.metadata)]

\* the result of an operation: the tables after it, how it ended, and what
\* it returned (an AssetRecord in <<...>>, <<>> for None)
Outcome(d, status, value) == [db |-> d, status |-> status, value |-> value]

SaveAssetBody(d, asset_id, name, scope, payload) ==
    LET table == AssetTableForScope(scope)
        row == AssetRow(asset_id, name, payload)
    IN IF ~CanSerializeDict(payload.metadata) THEN Outcome(d, "TypeError", <<>>)
       ELSE IF table = "ValueError" THEN Outcome(d, "ValueError", <<>>)
       ELSE Outcome(WithAssetRows(d, table, Append(AssetRows(d, table), row)), "ok",
                    <<[asset_id |-> asset_id, name |-> name, scope |-> scope,
                       mime |-> payload.mime, data |-> <<payload.data>>,
                       metadata |-> payload.metadata, page_id |-> payload.page_id]>>)

\* (mutation of SaveOrReplaceBody: the row found by name is left and a new
\* one inserted)
SaveOrInsertBody(d, asset_id, name, scope, payload) ==
    LET saved_as == SaveAssetBody(d, asset_id, name, scope, payload)
    IN IF saved_as.status # "ok" THEN saved_as
       ELSE Outcome(saved_as.db, "ok", GetAsset(saved_as.db, asset_id, FALSE))

SaveOrReplaceBody(d, asset_id, name, scope, payload) ==
    LET table == AssetTableForScope(scope)
        rows == AssetRows(d, table)
        row == FetchOne(rows, RowsNamed(rows, name))
        found == row[1].id
        updated == [i \in DOMAIN rows |->
                       IF rows[i].id = found THEN AssetRow(found, rows[i].name, payload)
                       ELSE rows[i]]
        inserted == Append(rows, AssetRow(asset_id, name, payload))
    IN IF ~CanSerializeDict(payload.metadata) THEN Outcome(d, "TypeError", <<>>)
       ELSE IF table = "ValueError" THEN Outcome(d, "ValueError", <<>>)
       ELSE IF row # <<>>
       THEN LET after == WithAssetRows(d, table, updated)
            IN Outcome(after, "ok", GetAsset(after, found, FALSE))
       ELSE LET after == WithAssetRows(d, table, inserted)
            IN Outcome(after, "ok", GetAsset(after, asset_id, FALSE))

\* (mutation of Renamed: the update writes the metadata column as well)
RenamedBare(rows, asset_id, new_name) ==
    [i \in DOMAIN rows |->
        IF rows[i].id = asset_id
        THEN [rows[i] EXCEPT !.name = new_name, !.metadata = SerializeDict(NoDict)]
        ELSE rows[i]]

Renamed(rows, asset_id, new_name) ==
    [i \in DOMAIN rows |->
        IF rows[i].id = asset_id THEN [rows[i] EXCEPT !.name = new_name] ELSE rows[i]]

RenameAssetBody(d, asset_id, new_name) ==
    LET after == IF RowsWithId(d.attachments, asset_id) # {}
                 THEN [d EXCEPT !.attachments = Renamed(@, asset_id, new_name)]
                 ELSE [d EXCEPT !.resource_files = Renamed(@, asset_id, new_name)]
    IN Outcome(after, "ok", GetAsset(after, asset_id, FALSE))

Without(rows, asset_id) ==
    LET kept == {i \in DOMAIN rows : rows[i].id # asset_id}
        Nth(n) == CHOOSE i \in kept : Cardinality({j \in kept : j < i}) = n - 1
    IN [n \in 1..Cardinality(kept) |-> rows[Nth(n)]]

DeleteAssetBody(d, asset_id) ==
    Outcome([d EXCEPT !.attachments = Without(@, asset_id),
                      !.resource_files = Without(@, asset_id)], "ok", <<>>)

\* a value of None in the updates
JNone == [k |-> "none", v |-> <<>>]

MergedMetadata(metadata, updates, replace) ==
    LET base == IF replace THEN NoDict ELSE metadata
        popped == {key \in DOMAIN updates : updates[key] = JNone}
        keys == ((DOMAIN base) \ popped) \cup ((DOMAIN updates) \ popped)
    IN [key \in keys |-> IF key \in DOMAIN updates THEN updates[key] ELSE base[key]]

\* (mutation of UpdateAssetMetadataBody: an unknown id raises)
UpdateKnownAssetBody(d, asset_id, updates, replace) ==
    IF GetAsset(d, asset_id, FALSE) = <<>> THEN Outcome(d, "KeyError", <<>>)
    ELSE Outcome(d, "ok", GetAsset(d, asset_id, FALSE))

UpdateAssetMetadataBody(d, asset_id, updates, replace) ==
    LET asset == GetAsset(d, asset_id, FALSE)
        metadata == MergedMetadata(asset[1].metadata, updates, replace)
        table == AssetTableForScope(asset[1].scope)
        rows == AssetRows(d, table)
        updated == [i \in DOMAIN rows |->
                       IF rows[i].id = asset_id
                       THEN [rows[i] EXCEPT !.metadata = SerializeDict(metadata)]
                       ELSE rows[i]]
    IN IF asset = <<>> THEN Outcome(d, "ok", <<>>)
       ELSE IF ~CanSerializeDict(metadata) THEN Outcome(d, "TypeError", <<>>)
       ELSE Outcome(WithAssetRows(d, table, updated), "ok",
                    <<[asset[1] EXCEPT !.metadata = metadata]>>)

----------------------------------------------------------------------------
(* SpecAssets: the asset operations called one after the other on one      *)
(* BenortPackage.                                                          *)

MaxAssets == 2

AssetNames == {T("n"), T("m")}

PaddedAttachment == <<" ", "A">> \o Tail(Attachment)

AssetScopes == {Attachment, Resource, PaddedAttachment, T("x")}

AssetPayload(data, mime, page_id, metadata) ==
    [data |-> data, mime |-> mime, page_id |-> page_id, metadata |-> metadata]

PayloadX == AssetPayload(T("x"), <<>>, <<>>, NoDict)
PayloadY == AssetPayload(T("y"), T("p"), T("a"), Extra("k", JTuple(T("1"))))
PayloadBad == AssetPayload(T("z"), <<>>, <<>>, Extra("k", JBytes))

AssetPayloads == {PayloadX, PayloadY, PayloadBad}

MetadataUpdates == {Extra("k", JStr(T("2"))), Extra("k", JNone), Extra("q", JBytes)}

\* uuid4().hex: an id no row carries, named in order of use
AssetIds == {T(Digits[i]) : i \in 1..(MaxAssets + 1)}

StoredAssetIds(d) ==
    {d.attachments[i].id : i \in DOMAIN d.attachments}
        \cup {d.resource_files[i].id : i \in DOMAIN d.resource_files}

NewAssetId(d) ==
    T(Digits[CHOOSE i \in 1..(MaxAssets + 1) :
                 /\ T(Digits[i]) \notin StoredAssetIds(d)
                 /\ \A j \in 1..(i - 1) : T(Digits[j]) \in StoredAssetIds(d)])

TotalAssets(d) == Len(d.attachments) + Len(d.resource_files)

OtherThanAssets == <<txn, now, saved, pwd, pc, loc, lockOwner, boundary, registry,
                     sidecar, auth>>

AssetTables(d) == [attachments |-> d.attachments, resource_files |-> d.resource_files]

\* every statement of the asset operations commits on its own; the call
\* keeps the asset tables as they were when it was made
AssetStep(op, arg, out) ==
    /\ TotalAssets(out.db) <= MaxAssets
    /\ db' = out.db
    /\ disk' = IF txn THEN disk ELSE out.db
    /\ call' = [op |-> op, status |-> out.status, arg |-> arg, value |-> out.value,
                before |-> AssetTables(db)]
    /\ UNCHANGED OtherThanAssets

SaveAsset(name, scope, payload) ==
    AssetStep("save_asset", [name |-> name, scope |-> scope, payload |-> payload],
              SaveAssetBody(db, NewAssetId(db), name, scope, payload))

\* what the call before was, when it was a save_or_replace_asset that
\* returned: its arguments, the id it returned, and the rows of the scope
\* that carried the name before it
NoEarlier == <<>>

Earlier ==
    IF call.op = "save_or_replace_asset" /\ call.status = "ok"
    THEN <<[name |-> call.arg.name, scope |-> call.arg.scope,
            payload |-> call.arg.payload, id |-> call.value[1].asset_id,
            named |-> Cardinality(RowsNamed(AssetRows(call.before,
                                                      AssetTableForScope(call.arg.scope)),
                                            call.arg.name))]>>
    ELSE NoEarlier

SaveOrReplaceAsset(name, scope, payload) ==
    AssetStep("save_or_replace_asset",
              [name |-> name, scope |-> scope, payload |-> payload, earlier |-> Earlier],
              SaveOrReplaceBody(db, NewAssetId(db), name, scope, payload))

CallListAssets(scope) ==
    AssetStep("list_assets", [scope |-> scope],
              IF AssetTableForScope(scope) = "ValueError"
              THEN Outcome(db, "ValueError", <<>>)
              ELSE Outcome(db, "ok", ListAssets(db, scope, FALSE)))

CallGetAsset(asset_id) ==
    AssetStep("get_asset", [id |-> asset_id], Outcome(db, "ok", GetAsset(db, asset_id, TRUE)))

CallFindAssetByName(scope, name) ==
    AssetStep("find_asset_by_name", [scope |-> scope, name |-> name],
              IF AssetTableForScope(scope) = "ValueError"
              THEN Outcome(db, "ValueError", <<>>)
              ELSE Outcome(db, "ok", FindAssetByName(db, scope, name, FALSE)))

RenameAsset(asset_id, new_name) ==
    AssetStep("rename_asset",
              [id |-> asset_id, name |-> new_name],
              RenameAssetBody(db, asset_id, new_name))

DeleteAsset(asset_id) ==
    AssetStep("delete_asset", [id |-> asset_id], DeleteAssetBody(db, asset_id))

UpdateAssetMetadata(asset_id, updates, replace) ==
    AssetStep("update_asset_metadata",
              [id |-> asset_id, updates |-> updates, replace |-> replace],
              UpdateAssetMetadataBody(db, asset_id, updates, replace))

NextAssets ==
    \/ \E name \in AssetNames : \E scope \in AssetScopes : \E payload \in AssetPayloads :
          SaveAsset(name, scope, payload)
    \/ \E name \in AssetNames : \E scope \in AssetScopes : \E payload \in AssetPayloads :
          SaveOrReplaceAsset(name, scope, payload)
    \/ \E scope \in AssetScopes : CallListAssets(scope)
    \/ \E asset_id \in AssetIds : CallGetAsset(asset_id)
    \/ \E scope \in AssetScopes : \E name \in AssetNames : CallFindAssetByName(scope, name)
    \/ \E asset_id \in AssetIds : \E new_name \in AssetNames : RenameAsset(asset_id, new_name)
    \/ \E asset_id \in AssetIds : DeleteAsset(asset_id)
    \/ \E asset_id \in AssetIds : \E updates \in MetadataUpdates : \E replace \in BOOLEAN :
          UpdateAssetMetadata(asset_id, updates, replace)

SpecAssets == InitCommon /\ [][NextAssets]_vars

IsAssetCall(ops) == call.op \in ops

TableIds(rows) == {rows[i].id : i \in DOMAIN rows}

\* the second of two save_or_replace_asset calls made one after the other,
\* both returning, with the same name and scope and another payload
SecondSaveOrReplace ==
    /\ IsAssetCall({"save_or_replace_asset"})
    /\ call.status = "ok"
    /\ call.arg.earlier # NoEarlier
    /\ call.arg.earlier[1].name = call.arg.name
    /\ call.arg.earlier[1].scope = call.arg.scope
    /\ call.arg.earlier[1].payload # call.arg.payload

OneRowWithSecondPayload ==
    LET rows == AssetRows(db, AssetTableForScope(call.arg.scope))
        hits == RowsNamed(rows, call.arg.name)
    IN /\ Cardinality(hits) = 1
       /\ \A i \in hits :
             rows[i] = AssetRow(call.arg.earlier[1].id, call.arg.name, call.arg.payload)

\* C13 as claimed: after two save_or_replace_asset calls with the same name
\* and scope and different payloads the scope has exactly one row of that
\* name, and it holds the second payload and the id the first call returned.
C13_AsClaimed == SecondSaveOrReplace => OneRowWithSecondPayload

\* C13 as amended: the same, when at most one row of the scope carried the
\* name before the first call.
C13_SaveOrReplaceTwice ==
    (SecondSaveOrReplace /\ call.arg.earlier[1].named <= 1) => OneRowWithSecondPayload

\* the first call inserted the row, next to a row of another name
C13_Witness ==
    /\ SecondSaveOrReplace
    /\ call.arg.earlier[1].named = 0
    /\ TotalAssets(db) = 2

RenamedKnown ==
    /\ IsAssetCall({"rename_asset"})
    /\ call.arg.id \in StoredAssetIds(call.before)

AssetBefore == GetAsset(call.before, call.arg.id, TRUE)[1]

AssetAfter == GetAsset(db, call.arg.id, TRUE)

RenameKeepsAsset ==
    /\ call.status = "ok"
    /\ AssetAfter = <<[AssetBefore EXCEPT !.name = call.arg.name]>>
    /\ call.value = GetAsset(db, call.arg.id, FALSE)
    /\ TableIds(db.attachments) = TableIds(call.before.attachments)
    /\ TableIds(db.resource_files) = TableIds(call.before.resource_files)

RenameMovesName ==
    LET found == FindAssetByName(db, AssetBefore.scope, call.arg.name, FALSE)
    IN /\ found # <<>>
       /\ found[1].asset_id = call.arg.id
       /\ FindAssetByName(db, AssetBefore.scope, AssetBefore.name, FALSE) = <<>>

\* C14 as claimed: rename_asset(id, new_name) on an existing asset keeps its
\* id, scope, payload, MIME type and metadata; afterwards find_asset_by_name
\* finds that id under the new name in its scope and nothing under the old
\* name.
C14_AsClaimed == RenamedKnown => (RenameKeepsAsset /\ RenameMovesName)

NamesOfOthers ==
    LET rows == AssetRows(call.before, AssetTableForScope(AssetBefore.scope))
    IN {rows[i].name : i \in {j \in DOMAIN rows : rows[j].id # call.arg.id}}

\* C14 as amended: rename_asset(id, new_name) on an existing asset keeps its
\* id, scope, payload, MIME type, page id and metadata; when the new name
\* differs from the old one and no other asset of the scope carries either,
\* find_asset_by_name afterwards finds that id under the new name in its
\* scope and nothing under the old name.
C14_RenameAsset ==
    RenamedKnown =>
        /\ RenameKeepsAsset
        /\ (call.arg.name # AssetBefore.name
               /\ {call.arg.name, AssetBefore.name} \cap NamesOfOthers = {})
              => RenameMovesName

\* an asset was given a name that an asset of the other scope carries
C14_Witness ==
    /\ RenamedKnown
    /\ call.arg.name # AssetBefore.name
    /\ NamesOfOthers = {}
    /\ TotalAssets(db) = 2
    /\ AssetBefore.metadata # NoDict

OtherTable(table) == IF table = "attachments" THEN "resource_files" ELSE "attachments"

\* the table an asset call writes: that of the scope it names, or that of
\* the asset whose id it names
WrittenTable ==
    IF call.op \in {"save_asset", "save_or_replace_asset"}
    THEN AssetTableForScope(call.arg.scope)
    ELSE IF call.arg.id \in TableIds(call.before.attachments) THEN "attachments"
    ELSE "resource_files"

\* C15: find_asset_by_name and list_assets return rows of the scope they are
\* asked for and of no other; no asset is in both scopes or moves from one
\* to the other under rename_asset, save_or_replace_asset or
\* update_asset_metadata; and save_asset, save_or_replace_asset, rename_asset
\* and update_asset_metadata leave the rows of the other scope as they were.
C15_ScopeIsolation ==
    /\ TableIds(db.attachments) \cap TableIds(db.resource_files) = {}
    /\ (IsAssetCall({"find_asset_by_name"}) /\ call.status = "ok") =>
          \A i \in DOMAIN call.value :
             call.value[i] \in Range(ListAssets(db, call.arg.scope, FALSE))
    /\ (IsAssetCall({"list_assets"}) /\ call.status = "ok") =>
          LET rows == AssetRows(db, AssetTableForScope(call.arg.scope))
          IN /\ Len(call.value) = Len(rows)
             /\ \A i \in DOMAIN rows :
                   call.value[i] = RowToAsset(rows[i], call.arg.scope, FALSE)
    /\ IsAssetCall({"rename_asset", "save_or_replace_asset", "update_asset_metadata",
                    "save_asset"}) =>
          /\ TableIds(call.before.attachments) \cap TableIds(db.resource_files) = {}
          /\ TableIds(call.before.resource_files) \cap TableIds(db.attachments) = {}
          /\ AssetRows(db, OtherTable(WrittenTable))
                = AssetRows(call.before, OtherTable(WrittenTable))

\* a name carried in one scope only was looked up in the other
C15_Witness ==
    /\ IsAssetCall({"find_asset_by_name"})
    /\ call.status = "ok"
    /\ call.value = <<>>
    /\ RowsNamed(AssetRows(db, OtherTable(AssetTableForScope(call.arg.scope))),
                 call.arg.name) # {}

UnknownId == call.arg.id \notin StoredAssetIds(call.before)

\* C16: get_asset, rename_asset and update_asset_metadata with an id no
\* asset carries return None, find_asset_by_name with a name no asset of the
\* scope carries returns None, delete_asset with an id no asset carries
\* returns; none of them raises and both asset tables are as they were.
C16_NotFound ==
    /\ (IsAssetCall({"get_asset", "rename_asset", "update_asset_metadata",
                     "delete_asset"}) /\ UnknownId) =>
          /\ call.status = "ok"
          /\ call.value = <<>>
          /\ AssetTables(db) = call.before
    /\ (/\ IsAssetCall({"find_asset_by_name"})
        /\ AssetTableForScope(call.arg.scope) # "ValueError"
        /\ RowsNamed(AssetRows(call.before, AssetTableForScope(call.arg.scope)),
                     call.arg.name) = {}) =>
          /\ call.status = "ok"
          /\ call.value = <<>>
          /\ AssetTables(db) = call.before

\* update_asset_metadata was given an id no asset carries while assets are
\* stored
C16_Witness ==
    /\ IsAssetCall({"update_asset_metadata"})
    /\ UnknownId
    /\ TotalAssets(db) > 0

----------------------------------------------------------------------------
(* SpecValidation: the operations that check an argument before they       *)
(* write, called one after the other: the password of                      *)
(* save_workspace_password and set_workspace_password, the scope of        *)
(* list_assets, find_asset_by_name, save_asset and save_or_replace_asset.  *)

ValidatedWorkspace == "w1"

ValidatedNames == {T("n")}

ValidatedPayloads == {PayloadX, PayloadBad}

NextValidation ==
    \/ \E new_password \in NewPasswords \cup {NoPassword} :
          SaveWorkspacePassword(new_password)
    \/ OpenLocalWorkspace(ValidatedWorkspace)
    \/ \E new_password \in NewPasswords \cup {NoPassword} :
          \E current_password \in {NoPassword, T("s")} :
             SetWorkspacePassword(ValidatedWorkspace, new_password, current_password)
    \/ \E name \in ValidatedNames : \E scope \in AssetScopes :
          \E payload \in ValidatedPayloads : SaveAsset(name, scope, payload)
    \/ \E name \in ValidatedNames : \E scope \in AssetScopes :
          \E payload \in ValidatedPayloads : SaveOrReplaceAsset(name, scope, payload)
    \/ \E scope \in AssetScopes : CallListAssets(scope)
    \/ \E scope \in AssetScopes : \E name \in ValidatedNames :
          CallFindAssetByName(scope, name)

SpecValidation == InitCommon /\ [][NextValidation]_vars

SetsPassword(c) == c.op \in {"save_workspace_password", "set_workspace_password"}

NewPasswordOf(c) == IF c.op = "set_workspace_password" THEN c.arg.new ELSE c.arg

NamesScope(c) ==
    c.op \in {"list_assets", "find_asset_by_name", "save_asset", "save_or_replace_asset"}

\* C12 as claimed: save_workspace_password and set_workspace_password with
\* an empty or whitespace-only password raise ValueError and leave the
\* password hash as it was; list_assets, find_asset_by_name, save_asset and
\* save_or_replace_asset with a scope other than 'attachment' and 'resource'
\* raise ValueError and leave both asset tables as they were.
C12_AsClaimed ==
    [][LET c == call'
       IN /\ (SetsPassword(c) /\ Strip(NewPasswordOf(c)) = <<>>) =>
                /\ c.status = "ValueError"
                /\ db'.passwordHash = db.passwordHash
          /\ (NamesScope(c) /\ c.arg.scope \notin {Attachment, Resource}) =>
                /\ c.status = "ValueError"
                /\ AssetTables(db') = AssetTables(db)]_vars

\* C12 as amended: save_workspace_password and set_workspace_password with
\* an empty or whitespace-only password raise ValueError and leave the
\* password hash as it was; list_assets, find_asset_by_name, save_asset and
\* save_or_replace_asset with a scope that, stripped of surrounding blanks
\* and put in lower case, is neither 'attachment' nor 'resource' leave both
\* asset tables as they were and raise ValueError, save for save_asset and
\* save_or_replace_asset with metadata that json.dumps rejects, which raise
\* TypeError.
C12_ValidationLeavesStore ==
    [][LET c == call'
       IN /\ (SetsPassword(c) /\ Strip(NewPasswordOf(c)) = <<>>) =>
                /\ c.status = "ValueError"
                /\ db' = db
                /\ disk' = disk
          /\ (NamesScope(c) /\ LowerText(Strip(c.arg.scope)) \notin {Attachment, Resource}) =>
                /\ c.status =
                      IF /\ c.op \in {"save_asset", "save_or_replace_asset"}
                         /\ ~CanSerializeDict(c.arg.payload.metadata)
                      THEN "TypeError" ELSE "ValueError"
                /\ db' = db
                /\ disk' = disk]_vars

\* save_asset was refused for its scope, and set_workspace_password for its
\* blank password, on a store that holds assets and a password hash
C12_Witness ==
    /\ call.op \in {"save_asset", "set_workspace_password"}
    /\ call.status = "ValueError"
    /\ TotalAssets(db) > 0
    /\ HasWorkspacePassword(db)

----------------------------------------------------------------------------
(* Learning records.  learning_records: id -> [input, output, favorite,    *)
(* saved_at]; the nullable columns context, prompt_id, prompt_name,        *)
(* method, category and review_state, which no operation below reads, are  *)
(* left out.  The clock is read in units of which the time to live of a    *)
(* record that is no favorite is LearningRecordTtl.                        *)

LearningRecordTtl == 2

\* the values a caller gives for "favorite"
JBool(b) == [k |-> "bool", b |-> b, v |-> <<>>]
JText(t) == [k |-> "str", b |-> FALSE, v |-> t]

TruthyTexts == {T("1"), <<"t", "r", "u", "e">>, <<"y", "e", "s">>, <<"o", "n">>}

FavoriteFlag(favorite_raw) ==
    IF favorite_raw.k = "str" THEN LowerText(Strip(favorite_raw.v)) \in TruthyTexts
    ELSE favorite_raw.b

\* (mutation of PruneLearningRecords: the favorite column is not looked at)
PruneOldLearningRecords(d, t) ==
    LET cutoff == t - LearningRecordTtl
        expired == {id \in DOMAIN d.learning_records :
                       d.learning_records[id].saved_at < cutoff}
    IN [d EXCEPT !.learning_records = Drop(@, expired)]

PruneLearningRecords(d, t) ==
    LET cutoff == t - LearningRecordTtl
        expired == {id \in DOMAIN d.learning_records :
                       /\ ~d.learning_records[id].favorite
                       /\ d.learning_records[id].saved_at < cutoff}
    IN [d EXCEPT !.learning_records = Drop(@, expired)]

LearningRecordOf(d, id) ==
    [id |-> id, input |-> d.learning_records[id].input,
     output |-> d.learning_records[id].output,
     favorite |-> d.learning_records[id].favorite,
     savedAt |-> d.learning_records[id].saved_at]

\* ORDER BY saved_at DESC leaves the order of rows of equal saved_at open
SavedAtDescending(d, ids) ==
    /\ Len(ids) = Cardinality(DOMAIN d.learning_records)
    /\ Range(ids) = DOMAIN d.learning_records
    /\ \A i \in DOMAIN ids : \A j \in DOMAIN ids :
          i < j => d.learning_records[ids[i]].saved_at >= d.learning_records[ids[j]].saved_at

\* the rows list_learning_records and get_learning_record_entry select
\* after the prune, at clock reading t
GetLearningRecordEntry(d, record_id, t) ==
    LET id == Strip(record_id)
        pruned == PruneLearningRecords(d, t)
    IN IF id = <<>> THEN [db |-> d, value |-> <<>>]
       ELSE IF id \notin DOMAIN pruned.learning_records THEN [db |-> pruned, value |-> <<>>]
       ELSE [db |-> pruned, value |-> <<LearningRecordOf(pruned, id)>>]

\* a record as save_learning_record_entry is given it: savedAt is <<>> when
\* absent, <<t>> when given
SaveLearningRecordEntryBody(d, record, t) ==
    LET record_id == Strip(record.id)
        saved_value == IF record.savedAt = <<>> THEN t ELSE record.savedAt[1]
        row == [input |-> record.input, output |-> record.output,
                favorite |-> FavoriteFlag(record.favorite), saved_at |-> saved_value]
        upserted == [d EXCEPT !.learning_records = Put(@, record_id, row)]
    IN [db |-> PruneLearningRecords(upserted, t),
        value |-> <<[id |-> record_id, input |-> record.input, output |-> record.output,
                     favorite |-> row.favorite, savedAt |-> saved_value]>>]

\* update_learning_record_entry with updates that hold "favorite" only
UpdateLearningRecordEntryBody(d, record_id, favorite_raw) ==
    LET id == Strip(record_id)
        updated == [d EXCEPT !.learning_records[id].favorite = FavoriteFlag(favorite_raw)]
    IN IF id = <<>> \/ id \notin DOMAIN d.learning_records THEN [db |-> d, value |-> <<>>]
       ELSE [db |-> updated, value |-> <<LearningRecordOf(updated, id)>>]

DeleteLearningRecordEntryBody(d, record_id) ==
    LET id == Strip(record_id)
    IN [db |-> [d EXCEPT !.learning_records = Drop(@, {id})],
        value |-> <<id # <<>> /\ id \in DOMAIN d.learning_records>>]

DeleteLearningRecordsForInputBody(d, input_value) ==
    [db |-> [d EXCEPT !.learning_records =
                Drop(@, {id \in DOMAIN @ : @[id].input = input_value})],
     value |-> <<>>]

----------------------------------------------------------------------------
(* SpecLearning: the learning record operations called one after the other *)
(* on one BenortPackage while the clock advances.                          *)

LearningIds == {T("1"), T("2")}

LearningInputs == {T("i"), T("j")}

FavoriteValues == {JBool(FALSE), JText(T("0")), JText(<<"O", "n">>)}

\* savedAt as given: absent, or a reading of long ago
SavedAtValues == {<<>>, <<0>>}

LearningRecords ==
    {[id |-> id, input |-> input, output |-> T("o"), favorite |-> favorite,
      savedAt |-> savedAt] :
        id \in LearningIds, input \in LearningInputs, favorite \in FavoriteValues,
        savedAt \in SavedAtValues}

OtherThanLearning == <<txn, saved, pwd, pc, loc, lockOwner, boundary, registry, sidecar,
                       auth>>

\* the call keeps the records stored and the clock reading when it was made
LearningStep(op, arg, out) ==
    /\ db' = out.db
    /\ disk' = IF txn THEN disk ELSE out.db
    /\ call' = [op |-> op, status |-> "ok", arg |-> arg, value |-> out.value,
                before |-> db.learning_records, at |-> now]
    /\ UNCHANGED now
    /\ UNCHANGED OtherThanLearning

SaveLearningRecordEntry(record) ==
    LearningStep("save_learning_record_entry", record,
                 SaveLearningRecordEntryBody(db, record, now))

UpdateLearningRecordEntry(record_id, favorite_raw) ==
    LearningStep("update_learning_record_entry", [id |-> record_id],
                 UpdateLearningRecordEntryBody(db, record_id, favorite_raw))

DeleteLearningRecordEntry(record_id) ==
    LearningStep("delete_learning_record_entry", [id |-> record_id],
                 DeleteLearningRecordEntryBody(db, record_id))

DeleteLearningRecordsForInput(input_value) ==
    LearningStep("delete_learning_records_for_input", [input |-> input_value],
                 DeleteLearningRecordsForInputBody(db, input_value))

ListLearningRecords ==
    LET pruned == PruneLearningRecords(db, now)
    IN \E ids \in ListsUpTo(LearningIds, Cardinality(LearningIds)) :
          /\ SavedAtDescending(pruned, ids)
          /\ LearningStep("list_learning_records", <<>>,
                          [db |-> pruned,
                           value |-> [i \in DOMAIN ids |-> LearningRecordOf(pruned, ids[i])]])

CallGetLearningRecordEntry(record_id) ==
    LearningStep("get_learning_record_entry", [id |-> record_id],
                 GetLearningRecordEntry(db, record_id, now))

\* the clock readings followed: long enough for a record saved at the
\* start to outlive the time to live
LearningHorizon == CreatedAt + LearningRecordTtl + 1

\* time passes between two calls
Tick ==
    /\ now < LearningHorizon
    /\ now' = now + 1
    /\ UNCHANGED <<db, disk, call>>
    /\ UNCHANGED OtherThanLearning

NextLearning ==
    \/ \E record \in LearningRecords : SaveLearningRecordEntry(record)
    \/ \E record_id \in LearningIds : \E favorite_raw \in FavoriteValues :
          UpdateLearningRecordEntry(record_id, favorite_raw)
    \/ \E record_id \in LearningIds : DeleteLearningRecordEntry(record_id)
    \/ \E input_value \in LearningInputs : DeleteLearningRecordsForInput(input_value)
    \/ ListLearningRecords
    \/ \E record_id \in LearningIds \cup {<<" ", "1">>} : CallGetLearningRecordEntry(record_id)
    \/ Tick

SpecLearning == InitCommon /\ [][NextLearning]_vars

IsLearningCall(ops) == call.op \in ops

Expired(record, t) == ~record.favorite /\ t - record.savedAt > LearningRecordTtl

FavoritesBefore == {id \in DOMAIN call.before : call.before[id].favorite}

\* C20: no record list_learning_records or get_learning_record_entry returns
\* is at once no favorite and saved longer ago than the time to live when
\* the call is made; every favorite stored is returned by
\* list_learning_records and, asked for by its id, by
\* get_learning_record_entry, however old it is; and a favorite leaves the
\* table only by a delete that names it or its input, or by a save or an
\* update of its id that ends its being a favorite.
C20_LearningRecordExpiry ==
    /\ IsLearningCall({"list_learning_records", "get_learning_record_entry"}) =>
          /\ \A i \in DOMAIN call.value : ~Expired(call.value[i], call.at)
          /\ \A i \in DOMAIN call.value :
                /\ call.value[i].id \in DOMAIN call.before
                /\ call.value[i].favorite = call.before[call.value[i].id].favorite
                /\ call.value[i].savedAt = call.before[call.value[i].id].saved_at
    /\ IsLearningCall({"list_learning_records"}) =>
          \A id \in FavoritesBefore : \E i \in DOMAIN call.value : call.value[i].id = id
    /\ IsLearningCall({"get_learning_record_entry"}) =>
          (Strip(call.arg.id) \in FavoritesBefore =>
              /\ call.value # <<>>
              /\ call.value[1].id = Strip(call.arg.id))
    /\ IsLearningCall({"save_learning_record_entry", "update_learning_record_entry",
                       "delete_learning_record_entry", "delete_learning_records_for_input",
                       "list_learning_records", "get_learning_record_entry"}) =>
          \A id \in FavoritesBefore :
             \/ id \in DOMAIN db.learning_records
             \/ call.op = "delete_learning_record_entry" /\ Strip(call.arg.id) = id
             \/ /\ call.op = "delete_learning_records_for_input"
                /\ call.arg.input = call.before[id].input
             \/ /\ call.op = "save_learning_record_entry"
                /\ Strip(call.arg.id) = id
                /\ ~FavoriteFlag(call.arg.favorite)

\* list_learning_records was called while a favorite and a record that is
\* none were both stored and both older than the time to live
C20_Witness ==
    /\ IsLearningCall({"list_learning_records"})
    /\ \E id \in DOMAIN call.before :
          /\ call.before[id].favorite
          /\ call.at - call.before[id].saved_at > LearningRecordTtl
    /\ \E id \in DOMAIN call.before :
          /\ ~call.before[id].favorite
          /\ call.at - call.before[id].saved_at > LearningRecordTtl
    /\ Len(call.value) = 1

----------------------------------------------------------------------------
(* Schema creation and migration: BenortPackage.__init__ on an existing    *)
(* file.  A step gives [db, ok]; ok is FALSE when a statement of the step   *)
(* raised, db being what the statements before it wrote (every statement   *)
(* is committed on its own).                                               *)

Done(d) == [db |-> d, ok |-> TRUE]
Raised(d) == [db |-> d, ok |-> FALSE]

\* the columns the CREATE INDEX statements of SCHEMA_STATEMENTS name
IndexedColumns == {"idx", "favorite", "category"}

\* SCHEMA_STATEMENTS: CREATE TABLE IF NOT EXISTS leaves a table of the
\* earlier layout as it is, and CREATE INDEX raises on a column it lacks
SchemaStatements(d) ==
    IF d.missing \cap IndexedColumns # {} THEN Raised(d) ELSE Done(d)

MigrateTemplatesIfNeeded(d) ==
    IF DOMAIN d.templates # {} THEN d
    ELSE SaveTemplate(SaveTemplate(d, "latex", "default"), "markdown", "default")

EnsureLearningRecordColumns(d) ==
    [d EXCEPT !.missing = @ \ {"method", "category", "favorite", "review_state"}]

EnsurePageLatexColumns(d) ==
    [d EXCEPT !.missing = @ \ {"idx", "meta"}]

HasMeta(d, key, kind) == key \in DOMAIN d.meta /\ d.meta[key].k = kind

SetMeta(d, key, value) == [d EXCEPT !.meta = Put(@, key, value)]

DeleteMeta(d, key) == [d EXCEPT !.meta = Drop(@, {key})]

\* the id uuid4 gives to the n-th row a migration step stores without one
GeneratedId(n) == <<"g", Digits[n]>>

\* save_learning_prompt_entry on {"id": prompt_id, "source": source}
SaveLearningPromptEntry(d, prompt_id, source, removed, gen) ==
    LET id == IF Strip(prompt_id) = <<>> THEN gen ELSE Strip(prompt_id)
    IN [d EXCEPT !.learning_prompts = Put(@, id, [source |-> source, removed |-> removed])]

\* One entry of the learningData value.  The value is the sequence of its
\* entries, [list, id, input, output, savedAt]: list names where the entry
\* stands ("custom", "overrides" and "removed" under "prompts", or
\* "records", an entry of a record with its input).
MigrateLearningEntry(d, entry, n, t) ==
    IF entry.list = "custom"
    THEN SaveLearningPromptEntry(d, entry.id, "custom", FALSE, GeneratedId(n))
    ELSE IF entry.list = "overrides"
    THEN SaveLearningPromptEntry(d, entry.id, "override", FALSE, GeneratedId(n))
    ELSE IF entry.list = "removed"
    THEN IF Strip(entry.id) = <<>> THEN d
         ELSE SaveLearningPromptEntry(d, Strip(entry.id), "override", TRUE, GeneratedId(n))
    ELSE IF Strip(entry.input) = <<>> \/ Strip(entry.output) = <<>> THEN d
    ELSE SaveLearningRecordEntryBody(
             d, [id |-> GeneratedId(n), input |-> Strip(entry.input),
                 output |-> Strip(entry.output), favorite |-> JBool(FALSE),
                 savedAt |-> IF entry.savedAt = <<>> THEN <<t>> ELSE entry.savedAt], t).db

RECURSIVE MigrateLearningEntries(_, _, _, _, _)
MigrateLearningEntries(d, entries, list, n, t) ==
    IF n = 0 THEN d
    ELSE LET sofar == MigrateLearningEntries(d, entries, list, n - 1, t)
         IN IF entries[n].list = list THEN MigrateLearningEntry(sofar, entries[n], n, t)
            ELSE sofar

MigrateLearningMeta(d, t) ==
    IF ~HasMeta(d, "learningData", "dict") THEN d
    ELSE LET entries == d.meta["learningData"].v
             n == Len(entries)
             custom == MigrateLearningEntries(d, entries, "custom", n, t)
             overrides == MigrateLearningEntries(custom, entries, "overrides", n, t)
             removed == MigrateLearningEntries(overrides, entries, "removed", n, t)
             records == MigrateLearningEntries(removed, entries, "records", n, t)
         IN SetMeta(records, "learningData", [k |-> "dict", v |-> <<>>])

\* A row of the pages table of the earlier layout is [id, idx, data], id
\* the empty text when NULL, data [k, page]: k is "dict" when the column
\* decodes to a mapping (page, with the fields of a caller's page), "str"
\* or "null" when it decodes to a string or is NULL, and "malformed" when
\* json.loads raises on it.
LegacyData(k, page) == [k |-> k, page |-> page]

EmptyPayload == Page(<<>>, <<>>, <<>>, <<>>, <<>>, <<>>, NoDict)

\* payload if isinstance(payload, dict) else {}
DictOrEmpty(data) == IF data.k = "dict" THEN data.page ELSE EmptyPayload

\* ORDER BY idx ASC
RECURSIVE OrderedByIdx(_)
OrderedByIdx(rows) ==
    IF rows = <<>> THEN <<>>
    ELSE LET first == CHOOSE i \in DOMAIN rows :
                          \A j \in DOMAIN rows :
                              rows[i].idx < rows[j].idx \/ (rows[i].idx = rows[j].idx /\ i <= j)
         IN <<rows[first]>> \o
            OrderedByIdx([j \in 1..(Len(rows) - 1) |-> IF j < first THEN rows[j] ELSE rows[j + 1]])

\* (mutation of MigratePageRow: the non-core fields are not stored)
MigratePageRowBare(d, row, gen) ==
    LET normalized == NormalizePagePayload(DictOrEmpty(row.data), gen)
        page_id == IF row.id # <<>> THEN row.id ELSE normalized.pageId
        d1 == UpsertPageLatex(d, page_id, row.idx, normalized.content, NoDict)
        d2 == UpsertPageText(d1, "page_markdown", page_id, normalized.notes)
        d3 == UpsertPageText(d2, "page_notes", page_id, normalized.script)
        d4 == RewritePageResources(d3, page_id, normalized.resources)
    IN RewritePageReferences(d4, page_id, normalized.bib)

\* one turn of the loop of _migrate_page_tables, past the decoding
MigratePageRow(d, row, gen) ==
    LET normalized == NormalizePagePayload(DictOrEmpty(row.data), gen)
        page_id == IF row.id # <<>> THEN row.id ELSE normalized.pageId
        extras == ExtractPageMeta(normalized)
        d1 == UpsertPageLatex(d, page_id, row.idx, normalized.content, extras)
        d2 == UpsertPageText(d1, "page_markdown", page_id, normalized.notes)
        d3 == UpsertPageText(d2, "page_notes", page_id, normalized.script)
        d4 == RewritePageResources(d3, page_id, normalized.resources)
    IN RewritePageReferences(d4, page_id, normalized.bib)

RECURSIVE DrainPages(_, _, _)
DrainPages(d, rows, n) ==
    IF n = 0 THEN Done(d)
    ELSE LET sofar == DrainPages(d, rows, n - 1)
         IN IF ~sofar.ok THEN sofar
            ELSE IF rows[n].data.k = "malformed" THEN Raised(sofar.db)
            ELSE Done(MigratePageRow(sofar.db, rows[n], GeneratedId(n)))

MigratePageTables(d) ==
    IF ~d.pages.exists THEN Done(d)
    ELSE LET rows == OrderedByIdx(d.pages.rows)
             drained == DrainPages(d, rows, Len(rows))
         IN IF drained.ok THEN Done([drained.db EXCEPT !.pages = NoTable]) ELSE drained

MigrateProjectResources(d) ==
    LET replaced == IF HasMeta(d, "resources", "list") /\ d.meta["resources"].v # <<>>
                    THEN ReplaceProjectResources(d, d.meta["resources"].v)
                    ELSE d
    IN DeleteMeta(replaced, "resources")

\* the meta key "project.bib" stands for the bib entry of the project record
MigrateProjectReferences(d) ==
    IF ~HasMeta(d, "project.bib", "list") THEN d
    ELSE LET bib_entries == d.meta["project.bib"].v
             popped == DeleteMeta(d, "project.bib")
         IN IF bib_entries # <<>> THEN ReplaceProjectReferences(popped, bib_entries).db
            ELSE popped

\* A row of the assets table of the earlier layout is a row of the current
\* tables with its scope.
LegacyAsset(asset_id, name, scope, payload) ==
    [id |-> asset_id, name |-> name, scope |-> scope, mime |-> payload.mime,
     data |-> payload.data, page_id |-> payload.page_id,
     metadata |-> SerializeDict(payload.metadata)]

\* (mutation of InsertLegacyAsset: the row is inserted again when its id is
\* stored already)
InsertLegacyAssetAgain(d, row) ==
    LET table == AssetTableForScope(row.scope)
        rows == AssetRows(d, table)
    IN IF table = "ValueError" THEN d
       ELSE WithAssetRows(d, table,
                Append(rows, [id |-> row.id, name |-> row.name, mime |-> row.mime,
                              data |-> row.data, page_id |-> row.page_id,
                              metadata |-> row.metadata]))

\* INSERT ... ON CONFLICT(id) DO NOTHING
InsertLegacyAsset(d, row) ==
    LET table == AssetTableForScope(row.scope)
        rows == AssetRows(d, table)
    IN IF table = "ValueError" \/ RowsWithId(rows, row.id) # {} THEN d
       ELSE WithAssetRows(d, table,
                Append(rows, [id |-> row.id, name |-> row.name, mime |-> row.mime,
                              data |-> row.data, page_id |-> row.page_id,
                              metadata |-> row.metadata]))

RECURSIVE DrainAssets(_, _, _)
DrainAssets(d, rows, n) ==
    IF n = 0 THEN d ELSE InsertLegacyAsset(DrainAssets(d, rows, n - 1), rows[n])

MigrateLegacyAssets(d) ==
    IF ~d.assets.exists THEN d ELSE DrainAssets(d, d.assets.rows, Len(d.assets.rows))

PROJECT_SECURITY_META_KEY == "projectSecurity"
LEGACY_SECURITY_META_KEYS == <<"workspaceSecurity">>

\* the value of a security row of the earlier key is <<the password hash>>
MigrateSecurityMetaKey(d, t) ==
    LET legacy_key == LEGACY_SECURITY_META_KEYS[1]
    IN IF HasMeta(d, PROJECT_SECURITY_META_KEY, "dict") THEN d
       ELSE IF HasMeta(d, legacy_key, "dict")
       THEN LET legacy_payload == d.meta[legacy_key].v
                moved == [d EXCEPT !.passwordHash =
                             IF legacy_payload = <<>> THEN <<>> ELSE legacy_payload[1]]
            IN DeleteMeta(SetMeta(moved, PROJECT_SECURITY_META_KEY,
                                  [k |-> "dict", v |-> <<>>]), legacy_key)
       ELSE SetMeta([d EXCEPT !.passwordHash = <<>>], PROJECT_SECURITY_META_KEY,
                    [k |-> "dict", v |-> <<t>>])

TemplateMetaKeys == {"latexTemplate", "markdownTemplate", "template"}

PurgeTemplateMetaKeys(d) == [d EXCEPT !.meta = Drop(@, TemplateMetaKeys)]

MigrateMetaEntries(d, t) == PurgeTemplateMetaKeys(MigrateSecurityMetaKey(d, t))

\* _ensure_schema: the steps in their order, up to the first that raises
EnsureSchema(d, t) ==
    LET schema == SchemaStatements(d)
        templates == MigrateTemplatesIfNeeded(schema.db)
        columns == EnsureLearningRecordColumns(templates)
        learning == MigrateLearningMeta(columns, t)
        latex == EnsurePageLatexColumns(learning)
        paged == MigratePageTables(latex)
        resources == MigrateProjectResources(paged.db)
        references == MigrateProjectReferences(resources)
        assets == MigrateLegacyAssets(references)
    IN IF ~schema.ok THEN schema
       ELSE IF ~paged.ok THEN paged
       ELSE Done(MigrateMetaEntries(assets, t))

----------------------------------------------------------------------------
(* Opening files of the earlier layouts *)

LegacyPageA ==
    Page(T("p"), T("x"), T("n"), T("s"), <<T("r")>>,
         <<BibDict(Extra("key", JStr(T("k"))))>>, Extra("title", JStr(T("t"))))

LegacyPageB ==
    Page(<<>>, T("y"), <<>>, <<>>, <<T("r"), <<" ", "r">>, T("q")>>,
         <<BibStr(T("e"))>>, Extra("id", JStr(T("z"))))

LegacyPageC == Page(<<>>, T("z"), T("n"), <<>>, <<>>, <<>>, NoDict)

PageRow(page_id, idx, k, page) == [id |-> page_id, idx |-> idx, data |-> LegacyData(k, page)]

Table(rows) == [exists |-> TRUE, rows |-> rows]

LegacyPagesTables ==
    {NoTable,
     Table(<<>>),
     Table(<<PageRow(T("a"), 1, "dict", LegacyPageA), PageRow(T("b"), 0, "dict", LegacyPageC)>>),
     Table(<<PageRow(T("a"), 0, "dict", LegacyPageA), PageRow(T("b"), 1, "dict", LegacyPageB)>>),
     Table(<<PageRow(T("a"), 0, "dict", LegacyPageA),
             PageRow(T("b"), 1, "malformed", EmptyPayload),
             PageRow(T("c"), 2, "dict", LegacyPageC)>>),
     Table(<<PageRow(T("b"), 0, "malformed", EmptyPayload),
             PageRow(T("a"), 1, "dict", LegacyPageA)>>),
     Table(<<PageRow(T("c"), 1, "str", EmptyPayload), PageRow(<<>>, 0, "dict", LegacyPageC),
             PageRow(T("d"), 2, "null", EmptyPayload)>>)}

PaddedResource == <<" ", "R">> \o Tail(Resource)

LegacyAssetsTables ==
    {NoTable,
     Table(<<LegacyAsset(T("1"), T("n"), Attachment, PayloadX),
             LegacyAsset(T("2"), T("m"), T("x"), PayloadX),
             LegacyAsset(T("3"), T("n"), PaddedResource, PayloadY)>>)}

MetaValue(k, v) == [k |-> k, v |-> v]

NoMeta == [key \in {} |-> MetaValue("dict", <<>>)]

Entry(key, value) == [x \in {key} |-> value]

LearningEntry(list, id, input, output, savedAt) ==
    [list |-> list, id |-> id, input |-> input, output |-> output, savedAt |-> savedAt]

LegacyLearningData ==
    <<LearningEntry("records", <<>>, T("i"), T("o"), <<0>>),
      LearningEntry("removed", <<"c", " ">>, <<>>, <<>>, <<>>),
      LearningEntry("records", <<>>, <<"j", " ">>, T("o"), <<>>),
      LearningEntry("custom", T("c"), <<>>, <<>>, <<>>),
      LearningEntry("overrides", <<>>, <<>>, <<>>, <<>>),
      LearningEntry("records", <<>>, T("i"), T(" "), <<>>)>>

\* the template a file of the earlier layout keeps under a meta key
LegacyTemplate == "legacy"

\* the rows the meta table may hold, one choice per key
LegacyMetaChoices ==
    <<{NoMeta, Entry("resources", MetaValue("list", <<T("r"), T("r"), <<" ", "q">>>>))},
      {NoMeta, Entry("project.bib", MetaValue("list", <<BibStr(T("e"))>>))},
      {NoMeta,
       Entry("workspaceSecurity", MetaValue("dict", <<GeneratePasswordHash(T("s"))>>)),
       Entry("projectSecurity", MetaValue("dict", <<0>>))},
      {NoMeta,
       Entry("learningData", MetaValue("dict", LegacyLearningData)),
       Entry("learningData", MetaValue("list", <<>>))},
      {NoMeta, Entry("latexTemplate", MetaValue("dict", <<LegacyTemplate>>))}>>

Merge(f, g) == [x \in (DOMAIN f) \cup (DOMAIN g) |-> IF x \in DOMAIN g THEN g[x] ELSE f[x]]

LegacyMetas ==
    {Merge(Merge(Merge(Merge(a, b), c), e), f) :
        a \in LegacyMetaChoices[1], b \in LegacyMetaChoices[2], c \in LegacyMetaChoices[3],
        e \in LegacyMetaChoices[4], f \in LegacyMetaChoices[5]}

LegacyMissing == {{}, {"method", "meta"}, {"idx"}}

\* a file written before the current layout: no template rows, no page rows
LegacyFiles ==
    {[SchemaDb EXCEPT !.templates = EmptyRows, !.meta = meta, !.pages = pages,
                      !.assets = assets, !.missing = missing] :
        meta \in LegacyMetas, pages \in LegacyPagesTables,
        assets \in LegacyAssetsTables, missing \in LegacyMissing}

InitMigration ==
    /\ db \in LegacyFiles \cup {CreatedDb}
    /\ disk = db
    /\ txn = FALSE
    /\ now = CreatedAt
    /\ call = NoCall
    /\ saved = NoSave
    /\ pwd = <<>>
    /\ pc = NoThreads
    /\ loc = NoLocals
    /\ lockOwner = "none"
    /\ boundary = NoBoundary
    /\ registry = NoHandles
    /\ sidecar = NoHandles
    /\ auth = NoHandles

Opened ==
    /\ call.op \in {"open", "list_pages", "get_template_block", "delete_asset"}
    /\ call.status = "ok"

\* BenortPackage(path) on the file.  The call keeps the file as it was,
\* whether the call before it was an open that returned, and the id that
\* call deleted when it was a delete_asset.
OpenPackage ==
    LET out == EnsureSchema(db, now)
    IN /\ db' = out.db
       /\ disk' = out.db
       /\ call' = [op |-> "open", status |-> IF out.ok THEN "ok" ELSE "raised",
                   arg |-> <<>>, value |-> <<>>, before |-> db,
                   again |-> call.op = "open" /\ call.status = "ok",
                   deleted |-> IF call.op = "delete_asset" THEN call.arg.id ELSE <<>>]
       /\ UNCHANGED now
       /\ UNCHANGED OtherThanLearning

\* list_pages() on the package an open returned; the call keeps the file
\* that open found
CallListPagesOpened ==
    /\ Opened
    /\ call' = [op |-> "list_pages", status |-> "ok", arg |-> <<>>,
                value |-> ListPages(db), before |-> call.before, again |-> FALSE,
                deleted |-> <<>>]
    /\ UNCHANGED <<db, disk, now>>
    /\ UNCHANGED OtherThanLearning

\* an operation on the package an open returned, which may write
OpenedStep(op, arg, newdb, value) ==
    /\ Opened
    /\ db' = newdb
    /\ disk' = newdb
    /\ call' = [op |-> op, status |-> "ok", arg |-> arg, value |-> value,
                before |-> call.before, again |-> FALSE, deleted |-> <<>>]
    /\ UNCHANGED now
    /\ UNCHANGED OtherThanLearning

CallGetTemplateBlock(template_type) ==
    LET got == GetTemplateBlock(db, template_type)
    IN OpenedStep("get_template_block", [type |-> template_type], got.db, got.data)

DeleteAssetOpened(asset_id) ==
    OpenedStep("delete_asset", [id |-> asset_id], DeleteAssetBody(db, asset_id).db, <<>>)

\* the id of an asset a file of the earlier layout holds, and one of none
DrainedAssetIds == {T("1"), T("9")}

NextMigration ==
    \/ OpenPackage
    \/ CallListPagesOpened
    \/ \E template_type \in {"latex", "markdown"} : CallGetTemplateBlock(template_type)
    \/ \E asset_id \in DrainedAssetIds : DeleteAssetOpened(asset_id)
    \/ Tick

SpecMigration == InitMigration /\ [][NextMigration]_vars

----------------------------------------------------------------------------
(* Claims about schema creation and migration *)

\* C17: an open that follows an open that returned, with no operation in
\* between, returns too and leaves every table of the file, the tables of
\* the earlier layout among them, with the rows it had.
C17_SecondOpenIdempotent ==
    call.op = "open" /\ call.again => call.status = "ok" /\ db = call.before

\* a second open of a file whose first open drained an assets table of the
\* earlier layout, moved the security row and stored learning records
C17_Witness ==
    /\ call.op = "open"
    /\ call.again
    /\ db.assets.exists
    /\ Len(db.attachments) > 0
    /\ Len(db.resource_files) > 0
    /\ DOMAIN db.learning_prompts # {}
    /\ db.passwordHash # <<>>

WellFormed(row) == row.data.k # "malformed"

PageIds(pages) == {pages[i].pageId : i \in DOMAIN pages}

\* C18 (as claimed): an open of a file whose pages table of the earlier
\* layout holds a row that cannot be decoded returns, and the page of every
\* row that can be decoded is in list_pages() afterwards.
C18_MalformedRowSkipped ==
    /\ call.op = "open"
    /\ call.before.pages.exists
    /\ \E i \in DOMAIN call.before.pages.rows : ~WellFormed(call.before.pages.rows[i])
    => /\ call.status = "ok"
       /\ \A i \in DOMAIN call.before.pages.rows :
              WellFormed(call.before.pages.rows[i])
                  => call.before.pages.rows[i].id \in PageIds(ListPages(db))

\* the rows of the table the last open found, by idx, and the payload of each
LegacyRows == OrderedByIdx(call.before.pages.rows)

AfterDrain == call.op = "list_pages" /\ call.before.pages.exists

Drained(row, got) ==
    LET page == DictOrEmpty(row.data)
    IN /\ row.id # <<>> => got.pageId = row.id
       /\ got.order = row.idx
       /\ got.content = page.content
       /\ got.notes = page.notes
       /\ got.script = page.script
       /\ got.resources = NormalizeResourceList(page.resources)
       /\ got.bib = CoerceBibEntries(page.bib)
       /\ got.extras = page.extras

C22_LegacyTemplateRelocated ==
    /\ call.op = "get_template_block"
    /\ call.arg.type = "latex"
    /\ HasMeta(call.before, "latexTemplate", "dict")
    /\ DOMAIN call.before.templates = {}
    => call.value = call.before.meta["latexTemplate"].v[1]

\* C26 (as claimed): an open that follows delete_asset(id) finds no asset
\* of that id, also when a table of the earlier layout held one.
C26_DeletedStaysDeleted ==
    call.op = "open" /\ call.status = "ok" /\ call.deleted # <<>>
        => GetAsset(db, call.deleted, FALSE) = <<>>

----------------------------------------------------------------------------
(* SpecSnapshot: one thread calls snapshot_to while the other calls        *)
(* save_pages on the same BenortPackage, with lists that save_pages stores *)
(* and a list on whose second page it raises.                              *)

SnapshotPages == {<<PageB, PageAPadded>>, <<PageA, PageBadBib>>}

\* snapshot_to(path) is called: the copy may hold the store as it is, or
\* as it was before the save_pages the other thread is in
BeginSnapshotTo(t) ==
    LET u == Other(t)
    IN /\ pc[t] = "idle"
       /\ loc[t].n < MaxCalls
       /\ pc' = [pc EXCEPT ![t] = "sn_backup"]
       /\ loc' = [loc EXCEPT ![t] =
                     [IdleLocal EXCEPT !.op = "snapshot_to", !.n = loc[t].n + 1,
                                       !.overlap = MidPages(u)]]
       /\ boundary' = [boundary EXCEPT ![t] =
                          IF MidPages(u) THEN {loc[u].before[1]} ELSE {db}]
       /\ UNCHANGED <<db, disk, txn, now, lockOwner>>
       /\ UNCHANGED OtherThanThreads

\* snapshot_to, lines 1314-1320: the lock, commit and the backup through
\* the connection.  The call keeps the pages of the copy and whether its
\* commit wrote to the file.
SnapshotBackup(t) ==
    /\ pc[t] = "sn_backup"
    /\ CanLock(t)
    /\ disk' = db
    /\ txn' = FALSE
    /\ pc' = [pc EXCEPT ![t] = "done"]
    /\ loc' = [loc EXCEPT ![t] =
                  Finished([@ EXCEPT !.out = [pages |-> ListPages(db),
                                              committed |-> disk # db]], "ok")]
    /\ UNCHANGED <<db, now, lockOwner, boundary>>
    /\ UNCHANGED OtherThanThreads

NextSnapshot ==
    \E t \in Threads :
        \/ \E pages \in SnapshotPages : BeginSavePages(t, pages)
        \/ SavePagesBegin(t)
        \/ SavePagesWrite(t)
        \/ SavePagesCommit(t)
        \/ BeginSnapshotTo(t)
        \/ SnapshotBackup(t)
        \/ Return(t)

SpecSnapshot == InitCommon /\ [][NextSnapshot]_vars

\* C21 (as claimed): the copy of a snapshot_to holds the pages of the store
\* as it was when snapshot_to was called (before the save_pages then
\* running, if any) or after a save_pages that committed since, and
\* snapshot_to writes nothing to the file it copies.
C21_SnapshotConsistent ==
    \A t \in Threads :
        Returned(t, "snapshot_to") =>
            /\ \E d \in boundary[t] : loc[t].out.pages = ListPages(d)
            /\ ~loc[t].out.committed

----------------------------------------------------------------------------
(* SpecFrame: save_project called among the operations that write to the   *)
(* same BenortPackage without it: save_pages, save_template, the asset     *)
(* operations and the password operations.                                 *)

FramePages == {<<PageB>>, <<PageA, PageBadBib>>}

\* payloads that carry the creation stamp or the stamp of the first save
FramePayloads ==
    {WithTokens(body, {"expectedUpdatedAt"}, 0, ts) :
        body \in {BodyFull, BodyNoPages},
        ts \in {CreatedAt, CreatedAt + ClockStep}}

NextFrame ==
    \/ \E payload \in FramePayloads : SaveProject(payload)
    \/ \E pages \in FramePages : SavePages(pages, FreshGens(db, pages))
    \/ CallSaveTemplate("latex", "custom")
    \/ SaveAsset(T("n"), Attachment, PayloadX)
    \/ DeleteAsset(T("1"))
    \/ UpdateAssetMetadata(T("1"), Extra("k", JStr(T("2"))), FALSE)
    \/ SaveWorkspacePassword(T("s"))
    \/ ClearWorkspacePassword

SpecFrame == InitCommon /\ [][NextFrame]_vars

\* a save_project that follows a save_pages that returned and carries the
\* stored updatedAt passes the version check, and stores the pages of its
\* payload in place of the stored ones when save_pages can store them
AcceptedAfterSavePages ==
    /\ IsSaveProject
    /\ call.arg.after_save_pages
    /\ Carried(call.arg.tokens).given
    /\ Carried(call.arg.tokens).ts = call.arg.stored
    => /\ call.status # "conflict"
       /\ call.arg.valid => /\ call.status = "ok"
                            /\ DOMAIN db.page_latex = call.arg.page_ids

\* C24: no operation but save_project changes the stored updatedAt of the
\* project, and a save_project that carries the updatedAt read before a
\* save_pages made directly is accepted after it and replaces the pages
\* that save_pages stored.
C24_OnlySaveProjectAdvances ==
    [][/\ call'.op # "save_project" => db'.project.updatedAt = db.project.updatedAt
       /\ AcceptedAfterSavePages']_vars

C24_Witness ==
    /\ IsSaveProject
    /\ call.status = "ok"
    /\ call.arg.after_save_pages
    /\ Carried(call.arg.tokens).given
    /\ Carried(call.arg.tokens).ts = call.arg.stored
    /\ call.arg.stored > CreatedAt
    /\ saved.status = "ok"
    /\ call.arg.stored_ids \ call.arg.page_ids # {}
    /\ db.attachments # <<>>

----------------------------------------------------------------------------
(* SpecMetadata: two threads call update_asset_metadata(asset_id, updates) *)
(* with replace=False on one BenortPackage, each with keys of its own.     *)

\* the keys a thread writes, disjoint from the other thread's
ThreadUpdates(t) ==
    IF t = "t1" THEN {Extra("k", JStr(T("1"))), Extra("k", JStr(T("2")))}
    ELSE {Extra("q", JStr(T("1"))), Extra("q", JStr(T("2")))}

UpdatedAssetId == T("1")

BeginUpdateAssetMetadata(t, updates) ==
    /\ pc[t] = "idle"
    /\ loc[t].n < MaxCalls
    /\ pc' = [pc EXCEPT ![t] = "um_get"]
    /\ loc' = [loc EXCEPT ![t] =
                  [IdleLocal EXCEPT !.op = "update_asset_metadata", !.n = loc[t].n + 1,
                                    !.payload = updates]]
    /\ UNCHANGED <<db, disk, txn, now, lockOwner, boundary>>
    /\ UNCHANGED OtherThanThreads

\* update_asset_metadata, lines 1290-1292: get_asset reads the row under
\* the lock and releases it; None is returned for an unknown id
UpdateGetAsset(t) ==
    LET asset == GetAsset(db, UpdatedAssetId, FALSE)
    IN /\ pc[t] = "um_get"
       /\ CanLock(t)
       /\ IF asset = <<>>
          THEN /\ pc' = [pc EXCEPT ![t] = "done"]
               /\ loc' = [loc EXCEPT ![t] = Finished(@, "ok")]
          ELSE /\ pc' = [pc EXCEPT ![t] = "um_update"]
               /\ loc' = [loc EXCEPT ![t].rows = asset]
       /\ UNCHANGED <<db, disk, txn, now, lockOwner, boundary>>
       /\ UNCHANGED OtherThanThreads

\* lines 1293-1305: the metadata read by get_asset, merged with the
\* updates, replaces the metadata of the row that carries the id
UpdateStored(d, asset, updates) ==
    LET metadata == MergedMetadata(asset.metadata, updates, FALSE)
        table == AssetTableForScope(asset.scope)
        rows == AssetRows(d, table)
    IN WithAssetRows(d, table,
                     [i \in DOMAIN rows |->
                         IF rows[i].id = asset.asset_id
                         THEN [rows[i] EXCEPT !.metadata = SerializeDict(metadata)]
                         ELSE rows[i]])

UpdateWrite(t) ==
    LET asset == loc[t].rows[1]
        newdb == UpdateStored(db, asset, loc[t].payload)
    IN /\ pc[t] = "um_update"
       /\ CanLock(t)
       /\ db' = newdb
       /\ disk' = IF txn THEN disk ELSE newdb
       /\ pc' = [pc EXCEPT ![t] = "done"]
       /\ loc' = [loc EXCEPT ![t] =
                     Finished([@ EXCEPT !.out =
                                  <<[asset EXCEPT !.metadata =
                                        MergedMetadata(asset.metadata, loc[t].payload,
                                                       FALSE)]>>], "ok")]
       /\ UNCHANGED <<txn, now, lockOwner, boundary>>
       /\ UNCHANGED OtherThanThreads

NextMetadata ==
    \/ /\ \A t \in Threads : pc[t] = "idle"
       /\ SaveAsset(T("n"), Attachment, PayloadX)
    \/ \E t \in Threads :
          \/ \E updates \in ThreadUpdates(t) : BeginUpdateAssetMetadata(t, updates)
          \/ UpdateGetAsset(t)
          \/ UpdateWrite(t)
          \/ Return(t)

SpecMetadata == InitCommon /\ [][NextMetadata]_vars

\* C27 (as claimed): when both threads have returned from
\* update_asset_metadata on an asset that is stored, its stored metadata
\* holds the key and the value each of them wrote.
C27_NoLostUpdate ==
    (/\ \A t \in Threads : Returned(t, "update_asset_metadata") /\ loc[t].out # <<>>)
        => LET stored == GetAsset(db, UpdatedAssetId, FALSE)[1].metadata
           IN \A t \in Threads : \A key \in DOMAIN loc[t].payload :
                 key \in DOMAIN stored /\ stored[key] = loc[t].payload[key]

----------------------------------------------------------------------------
(* SpecRegistry: two threads call get_workspace, close_workspace,          *)
(* set_workspace_password, unlock_workspace and list_workspaces on one     *)
(* workspace id.  A handle is [locked, unlocked, package, closed]:         *)
(* `package` names the BenortPackage it holds by the thread and the call   *)
(* that opened it, `closed` tells whether close_workspace closed it.  A    *)
(* handle is one object: `registry` and the `rows` local of every thread   *)
(* that got it refer to it, and a write to it shows through all of them.   *)
(* `sidecar` holds the flags of the shared record.  `call` keeps the last  *)
(* of open_local_workspace, close_workspace and a restart that returned.   *)

RegistryId == "w1"

RegistryPassword == T("s")

Flags(handle) == [locked |-> handle.locked, unlocked |-> handle.unlocked]

WithFlags(handle, flags) ==
    [handle EXCEPT !.locked = flags.locked, !.unlocked = flags.unlocked]

Holds(u, package) == loc[u].rows # <<>> /\ loc[u].rows[1].package = package

\* the handle after a write, seen through the registry and through the
\* locals of the other threads
RegistryAfterWrite(handle) ==
    IF RegistryId \in DOMAIN registry /\ registry[RegistryId].package = handle.package
    THEN Put(registry, RegistryId, handle) ELSE registry

LocalsAfterWrite(t, handle, mine) ==
    [u \in Threads |->
        IF u = t THEN mine
        ELSE IF Holds(u, handle.package) THEN [loc[u] EXCEPT !.rows = <<handle>>]
        ELSE loc[u]]

\* _refresh_handle_security(handle, preserve_unlock=True, persist=True):
\* the record is written when a flag changed
PersistedAfterRefresh(before, after) ==
    IF Flags(after) # Flags(before) THEN Put(sidecar, RegistryId, Flags(after)) ELSE sidecar

AllIdle == \A t \in Threads : pc[t] = "idle"

\* open_local_workspace by a caller while no thread is in a call
RegistryOpen ==
    LET flags == RefreshHandleSecurity(NewHandle, db, FALSE)
        handle == [locked |-> flags.locked, unlocked |-> flags.unlocked,
                   package |-> <<"open", 0>>, closed |-> FALSE]
    IN /\ AllIdle
       /\ RegistryId \notin DOMAIN registry
       /\ RegistryId \notin DOMAIN sidecar
       /\ registry' = Put(registry, RegistryId, handle)
       /\ sidecar' = Put(sidecar, RegistryId, flags)
       /\ call' = WsCall("open_local_workspace", RegistryId, "ok")
       /\ UNCHANGED <<db, disk, txn, now, saved, pwd, pc, loc, lockOwner, boundary, auth>>

RegistryOps ==
    {"get_workspace", "close_workspace", "set_workspace_password", "unlock_workspace",
     "list_workspaces"}

\* a call is made; it keeps whether a close_workspace has returned since
\* the workspace was opened
BeginRegistryCall(t, op) ==
    /\ pc[t] = "idle"
    /\ loc[t].n < MaxCalls
    /\ pc' = [pc EXCEPT ![t] = CASE op = "close_workspace" -> "cw_remove"
                                [] op = "list_workspaces" -> "lw_refresh"
                                [] OTHER -> "gw_lookup"]
    /\ loc' = [loc EXCEPT ![t] =
                  [IdleLocal EXCEPT !.op = op, !.n = loc[t].n + 1,
                                    !.payload = [after_close |-> call.op = "close_workspace",
                                                 absent |-> FALSE]]]
    /\ UNCHANGED <<db, disk, txn, now, lockOwner, boundary>>
    /\ UNCHANGED <<call, saved, pwd, registry, sidecar, auth>>

\* what follows get_workspace in the call the thread is in
AfterGetWorkspace(t) == IF loc[t].op = "get_workspace" THEN "done" ELSE "pw_apply"

GotHandle(l, handle) ==
    IF l.op = "get_workspace"
    THEN Finished([l EXCEPT !.out = <<handle>>], "ok")
    ELSE [l EXCEPT !.rows = <<handle>>]

\* get_workspace, lines 418-420: the registry is read under _LOCK
GetWorkspaceLookup(t) ==
    /\ pc[t] = "gw_lookup"
    /\ CanLock(t)
    /\ IF RegistryId \in DOMAIN registry
       THEN /\ pc' = [pc EXCEPT ![t] = AfterGetWorkspace(t)]
            /\ loc' = [loc EXCEPT ![t] = GotHandle(@, registry[RegistryId])]
       ELSE /\ pc' = [pc EXCEPT ![t] = "gw_recover"]
            /\ loc' = [loc EXCEPT ![t].payload.absent = RegistryId \in DOMAIN sidecar]
    /\ UNCHANGED <<db, disk, txn, now, lockOwner, boundary>>
    /\ UNCHANGED <<call, saved, pwd, registry, sidecar, auth>>

\* _recover_workspace: the record is loaded, a BenortPackage is opened on
\* the file, the handle takes the flags of the record and is refreshed
GetWorkspaceRecover(t) ==
    /\ pc[t] = "gw_recover"
    /\ IF RegistryId \notin DOMAIN sidecar
       THEN /\ pc' = [pc EXCEPT ![t] = "done"]
            /\ loc' = [loc EXCEPT ![t] = Finished(@, "WorkspaceNotFoundError")]
            /\ UNCHANGED sidecar
       ELSE LET record == sidecar[RegistryId]
                flags == RefreshHandleSecurity(record, db, TRUE)
                handle == [locked |-> flags.locked, unlocked |-> flags.unlocked,
                           package |-> <<t, loc[t].n>>, closed |-> FALSE]
            IN /\ pc' = [pc EXCEPT ![t] = "gw_register"]
               /\ loc' = [loc EXCEPT ![t].rows = <<handle>>]
               /\ sidecar' = PersistedAfterRefresh(record, handle)
    /\ UNCHANGED <<db, disk, txn, now, lockOwner, boundary>>
    /\ UNCHANGED <<call, saved, pwd, registry, auth>>

\* _register: the handle is stored under _LOCK and its record written
GetWorkspaceRegister(t) ==
    LET handle == loc[t].rows[1]
    IN /\ pc[t] = "gw_register"
       /\ CanLock(t)
       /\ registry' = Put(registry, RegistryId, handle)
       /\ sidecar' = Put(sidecar, RegistryId, Flags(handle))
       /\ pc' = [pc EXCEPT ![t] = AfterGetWorkspace(t)]
       /\ loc' = [loc EXCEPT ![t] = GotHandle(@, handle)]
       /\ UNCHANGED <<db, disk, txn, now, lockOwner, boundary>>
       /\ UNCHANGED <<call, saved, pwd, auth>>

\* set_workspace_password(id, RegistryPassword) with no current password
\* and unlock_workspace(id, RegistryPassword) after get_workspace; a closed
\* package raises sqlite3.ProgrammingError at its first statement
PasswordApply(t) ==
    LET handle == loc[t].rows[1]
        sets == loc[t].op = "set_workspace_password"
        permitted == IF sets THEN PasswordPermitted(handle, db, NoPassword)
                     ELSE VerifyPassword(db, RegistryPassword)
        status == IF handle.closed THEN "ProgrammingError"
                  ELSE IF ~permitted THEN "PermissionError" ELSE "ok"
        newdb == IF sets /\ status = "ok"
                 THEN [db EXCEPT !.passwordHash = GeneratePasswordHash(RegistryPassword)]
                 ELSE db
        unlocked == [handle EXCEPT !.unlocked = TRUE]
        after == WithFlags(handle, RefreshHandleSecurity(unlocked, newdb, TRUE))
    IN /\ pc[t] = "pw_apply"
       /\ pc' = [pc EXCEPT ![t] = "done"]
       /\ db' = newdb
       /\ disk' = newdb
       /\ IF status = "ok"
          THEN /\ registry' = RegistryAfterWrite(after)
               /\ sidecar' = PersistedAfterRefresh(unlocked, after)
               /\ loc' = LocalsAfterWrite(t, after,
                                          Finished([loc[t] EXCEPT !.out = <<after>>], "ok"))
          ELSE /\ loc' = [loc EXCEPT ![t] = Finished(@, status)]
               /\ UNCHANGED <<registry, sidecar>>
       /\ UNCHANGED <<txn, now, lockOwner, boundary>>
       /\ UNCHANGED <<call, saved, pwd, auth>>

\* list_workspaces: every registered handle is refreshed under _LOCK
ListWorkspacesRefresh(t) ==
    /\ pc[t] = "lw_refresh"
    /\ CanLock(t)
    /\ pc' = [pc EXCEPT ![t] = "done"]
    /\ IF RegistryId \in DOMAIN registry
       THEN LET handle == registry[RegistryId]
                after == WithFlags(handle, RefreshHandleSecurity(handle, db, TRUE))
            IN /\ registry' = Put(registry, RegistryId, after)
               /\ sidecar' = PersistedAfterRefresh(handle, after)
               /\ loc' = LocalsAfterWrite(t, after,
                                          Finished([loc[t] EXCEPT !.out = <<after>>], "ok"))
       ELSE /\ loc' = [loc EXCEPT ![t] = Finished(@, "ok")]
            /\ UNCHANGED <<registry, sidecar>>
    /\ UNCHANGED <<db, disk, txn, now, lockOwner, boundary>>
    /\ UNCHANGED <<call, saved, pwd, auth>>

\* close_workspace, line 401: the shared record is removed
CloseRemoveRecord(t) ==
    /\ pc[t] = "cw_remove"
    /\ sidecar' = Drop(sidecar, {RegistryId})
    /\ pc' = [pc EXCEPT ![t] = "cw_pop"]
    /\ UNCHANGED <<db, disk, txn, now, lockOwner, boundary, loc>>
    /\ UNCHANGED <<call, saved, pwd, registry, auth>>

\* close_workspace, lines 402-414: the handle is popped under _LOCK and
\* its package closed
ClosePop(t) ==
    /\ pc[t] = "cw_pop"
    /\ CanLock(t)
    /\ registry' = Drop(registry, {RegistryId})
    /\ pc' = [pc EXCEPT ![t] = "done"]
    /\ loc' = [u \in Threads |->
                  IF u = t THEN Finished(loc[t], "ok")
                  ELSE IF /\ RegistryId \in DOMAIN registry
                          /\ Holds(u, registry[RegistryId].package)
                  THEN [loc[u] EXCEPT !.rows[1].closed = TRUE]
                  ELSE loc[u]]
    /\ call' = WsCall("close_workspace", RegistryId, "ok")
    /\ UNCHANGED <<db, disk, txn, now, lockOwner, boundary>>
    /\ UNCHANGED <<saved, pwd, sidecar, auth>>

NextRegistry ==
    \/ RegistryOpen
    \/ AllIdle /\ ProcessRestart
    \/ \E t \in Threads :
          \/ \E op \in RegistryOps : BeginRegistryCall(t, op)
          \/ GetWorkspaceLookup(t)
          \/ GetWorkspaceRecover(t)
          \/ GetWorkspaceRegister(t)
          \/ PasswordApply(t)
          \/ ListWorkspacesRefresh(t)
          \/ CloseRemoveRecord(t)
          \/ ClosePop(t)
          \/ Return(t)

SpecRegistry == InitCommon /\ [][NextRegistry]_vars

\* C28 (as claimed): two get_workspace calls that both found the id absent
\* from the registry and present in the shared registry return the same
\* handle, on one BenortPackage.
C28_OneHandle ==
    (\A t \in Threads :
        /\ Returned(t, "get_workspace")
        /\ loc[t].status = "ok"
        /\ loc[t].payload.absent)
        => loc["t1"].out[1].package = loc["t2"].out[1].package

\* C29 (as claimed): a get_workspace called after close_workspace returned
\* raises WorkspaceNotFoundError.
C29_ClosedStaysClosed ==
    \A t \in Threads :
        Returned(t, "get_workspace") /\ loc[t].payload.after_close
            => loc[t].status = "WorkspaceNotFoundError"

====
